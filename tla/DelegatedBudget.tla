-------------------------- MODULE DelegatedBudget --------------------------
(***************************************************************************)
(* What a delegation promises its owner, without vaults, orders, nonces or *)
(* timestamps.  A mandate the owner issued can be granted once; while the  *)
(* granted key is live its agent spends up to the limit on one day; a key  *)
(* whose mandate was revoked or has lapsed spends nothing until another    *)
(* mandate, never granted before, is granted.                              *)
(***************************************************************************)
EXTENDS Integers

CONSTANTS
    Keys,       \* <<owner, delegate, token>> triples
    Mandates    \* records with the fields key and maxPerDay

VARIABLES
    day,        \* the current day
    issued,     \* mandates the owners ever signed
    usable,     \* those that may still be granted
    live,       \* keys under which the agent may spend now
    limit,      \* the daily limit of a key
    spent       \* what was spent under a key on the current day

budgetVars == <<day, issued, usable, live, limit, spent>>

Init ==
    /\ day \in Nat
    /\ issued = {} /\ usable = {} /\ live = {}
    /\ limit = [k \in Keys |-> 0]
    /\ spent = [k \in Keys |-> 0]

Issue(m) ==
    /\ m \notin issued
    /\ issued' = issued \cup {m}
    /\ usable' = usable \cup {m}
    /\ UNCHANGED <<day, live, limit, spent>>

\* Granting opens a new budget and uses the mandate up, and with it possibly
\* others that were alternatives to it.
Grant(m) ==
    /\ m \in usable
    /\ usable' \subseteq usable \ {m}
    /\ live' = live \cup {m.key}
    /\ limit' = [limit EXCEPT ![m.key] = m.maxPerDay]
    /\ spent' = [spent EXCEPT ![m.key] = 0]
    /\ UNCHANGED <<day, issued>>

Revoke(k) ==
    /\ live' = live \ {k}
    /\ UNCHANGED <<day, issued, usable, limit, spent>>

Spend(k) ==
    /\ k \in live
    /\ \E total \in spent[k] .. limit[k] : spent' = [spent EXCEPT ![k] = total]
    /\ UNCHANGED <<day, issued, usable, live, limit>>

\* Time passes: keys may lapse, and a new day starts with nothing spent.
Tick ==
    /\ day' >= day
    /\ live' \subseteq live
    /\ spent' = IF day' = day THEN spent ELSE [k \in Keys |-> 0]
    /\ UNCHANGED <<issued, usable, limit>>

Next ==
    \/ \E m \in Mandates : Issue(m) \/ Grant(m)
    \/ \E k \in Keys : Revoke(k) \/ Spend(k)
    \/ Tick

Spec == Init /\ [][Next]_budgetVars

=============================================================================
