---------------------------- MODULE SilverPromise ----------------------------
(***************************************************************************)
(* What the ETL owes its clients, with no queue, run or claim in sight:    *)
(* documents change at their source, somebody asks for a version of a      *)
(* document to be merged into the silver index, and an item is reported as *)
(* settled only while the index shows the version asked for or a later     *)
(* one.  The index never goes back to an earlier version.                  *)
(***************************************************************************)
EXTENDS Integers

CONSTANT Docs

VARIABLES
  current,    \* version of each document at its source
  asked,      \* version whose merge was asked for last
  published,  \* version the silver index shows
  settled     \* documents reported as done

vars == <<current, asked, published, settled>>

Init ==
  /\ current = [d \in Docs |-> 0]
  /\ asked = [d \in Docs |-> 0]
  /\ published = [d \in Docs |-> 0]
  /\ settled = {}

Change(d) ==
  /\ current' = [current EXCEPT ![d] = @ + 1]
  /\ UNCHANGED <<asked, published, settled>>

\* Two clients may ask in the reverse order of their versions.
Ask(d) ==
  /\ \E v \in 0 .. current[d] : asked' = [asked EXCEPT ![d] = v]
  /\ settled' = settled \ {d}
  /\ UNCHANGED <<current, published>>

Reopen(S) ==
  /\ settled' = settled \ S
  /\ UNCHANGED <<current, asked, published>>

Publish(S) ==
  /\ \E p \in [S -> UNION {0 .. current[d] : d \in Docs}] :
       /\ \A d \in S : p[d] \in published[d] .. current[d]
       /\ published' = [d \in Docs |-> IF d \in S THEN p[d] ELSE published[d]]
  /\ UNCHANGED <<current, asked, settled>>

Settle(d) ==
  /\ published[d] >= asked[d]
  /\ settled' = settled \cup {d}
  /\ UNCHANGED <<current, asked, published>>

Next ==
  \/ \E d \in Docs : Change(d) \/ Ask(d) \/ Settle(d)
  \/ \E S \in SUBSET Docs : Reopen(S) \/ Publish(S)

Spec == Init /\ [][Next]_vars
=============================================================================
