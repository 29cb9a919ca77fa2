--------------------------- MODULE MCAuditedRelay ---------------------------
(* AuditedRelay: one request for any operation, beside others that edit the
   category of the same sender ID. *)
EXTENDS AuditedRelay

CONSTANT Any    \* the request for any operation

AnyBesideEdits == [r \in Request |-> IF r = Any THEN Operations ELSE {UpdateSenderIdCategory}]
Edits == [r \in Request |-> {UpdateSenderIdCategory}]
===============================================================================
