--------------------------- MODULE MCReceiptStore ---------------------------
(* Two tenants and the tasks that meet on the same facts. *)
EXTENDS ReceiptStore

CONSTANTS t1, t2

R(ref, outcome) == [ref |-> ref, version |-> 1, fingerprint |-> "fp", outcome |-> outcome]
TwoFacts == {R("a", "applied"), R("a", "refused"), R("b", "applied")}
Task(tenant, ledger, receipts) == [tenant |-> tenant, ledger |-> ledger, receipts |-> receipts]

(* Batches that overlap in part, a second verdict, another tenant, a wrong ledger. *)
MixedTasks == {
    Task(t1, t1, <<R("a", "applied"), R("b", "applied")>>),
    Task(t1, t1, <<R("b", "applied")>>),
    Task(t1, t1, <<R("a", "refused")>>),
    Task(t1, t2, <<R("a", "applied")>>),
    Task(t2, t2, <<R("a", "applied")>>)}
=============================================================================
