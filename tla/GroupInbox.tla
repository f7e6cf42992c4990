----------------------------- MODULE GroupInbox -----------------------------
(***************************************************************************)
(* What the group channel promises, with no place, signal, clock or table: *)
(* a message to a group puts one copy in the box of each member of that    *)
(* moment but its sender, to be read at once or kept; a kept copy becomes  *)
(* readable at some later time, or is cancelled when its owner leaves; a   *)
(* readable or cancelled copy stays what it is.                            *)
(* GroupBus is shown to implement this module.                             *)
(***************************************************************************)
EXTENDS Integers

CONSTANTS Agents, Groups

VARIABLES
    roster,     \* the members of each group
    last,       \* the last message sent
    kept,       \* copies [msg, group, owner] waiting for their owner
    readable    \* copies their owner can read

inbox == <<roster, last, kept, readable>>

Copies(owners, g, m) == {[msg |-> m, group |-> g, owner |-> a] : a \in owners}

Init == /\ roster \in [Groups -> SUBSET Agents]
        /\ last = 0
        /\ kept = {}
        /\ readable = {}

Join(a, g) == /\ roster' = [roster EXCEPT ![g] = @ \union {a}]
              /\ UNCHANGED <<last, kept, readable>>

\* The channel is opened again, and enrols those it is told to enrol.
Reopen(enrolled) ==
    /\ roster' = [g \in Groups |-> roster[g] \union enrolled[g]]
    /\ UNCHANGED <<last, kept, readable>>

\* The copies of the one who goes are cancelled with the membership.
Leave(a, g) == /\ a \in roster[g]
               /\ roster' = [roster EXCEPT ![g] = @ \ {a}]
               /\ kept' = {c \in kept : c.owner # a \/ c.group # g}
               /\ UNCHANGED <<last, readable>>

Send(s, g, now) ==
    /\ now \subseteq roster[g] \ {s}
    /\ last' = last + 1
    /\ readable' = readable \union Copies(now, g, last')
    /\ kept' = kept \union Copies((roster[g] \ {s}) \ now, g, last')
    /\ UNCHANGED roster

Deliver(ready) == /\ ready \subseteq kept
                  /\ readable' = readable \union ready
                  /\ kept' = kept \ ready
                  /\ UNCHANGED <<roster, last>>

Next == \/ \E a \in Agents, g \in Groups : Join(a, g) \/ Leave(a, g)
        \/ \E s \in Agents, g \in Groups, now \in SUBSET Agents : Send(s, g, now)
        \/ \E ready \in SUBSET kept : Deliver(ready)
        \/ \E enrolled \in [Groups -> SUBSET Agents] : Reopen(enrolled)

Spec == Init /\ [][Next]_inbox
=============================================================================
