------------------------------ MODULE NameTable ------------------------------
(***************************************************************************)
(* What a HASH_TABLE promises: a set of entries, each with a name.  A      *)
(* lookup finds the entry of a name wherever it is, and makes one only for *)
(* a name that has none.                                                   *)
(***************************************************************************)
CONSTANTS KeySet, Entries, NoEntry, NoKey

VARIABLES
    known,  \* the set of <<name, entry>> in the table
    reply   \* <<name, entry>>: the last lookup and what it returned
tableVars == <<known, reply>>

TableInit == known = {} /\ reply = <<NoKey, NoEntry>>

Found(n) == \E e \in Entries : /\ <<n, e>> \in known
                               /\ reply' = <<n, e>> /\ known' = known
Absent(n) == /\ \A e \in Entries : <<n, e>> \notin known
             /\ reply' = <<n, NoEntry>> /\ known' = known
Created(n) ==
    \E e \in Entries :
      /\ \A m \in KeySet : <<m, e>> \notin known
      /\ \A f \in Entries : <<n, f>> \notin known
      /\ known' = known \cup {<<n, e>>} /\ reply' = <<n, e>>
Cleared == known' = {} /\ reply' = reply

TableNext == Cleared \/ \E n \in KeySet : Found(n) \/ Absent(n) \/ Created(n)
NameTableSpec == TableInit /\ [][TableNext]_tableVars
=============================================================================
