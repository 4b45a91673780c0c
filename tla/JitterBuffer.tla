---------------------------- MODULE JitterBuffer ----------------------------
(***************************************************************************)
(* What NetEq promises about packets: it takes them in the order they were *)
(* sent, each slot once and as well as it came, and lets none go untaken   *)
(* but for those that came too late; until a flush, which forgets it all.  *)
(* A copy of a slot is [n, kind]: a packet from the network, comfort noise *)
(* (which may be dropped, and taken again), a copy sent with the next      *)
(* packet, or silence that stands for it.  The one taken last may also be  *)
(* "astray", its audio not as long as it should be, or "unsettled": played *)
(* right after what came before, in the place of slots that may yet come.  *)
(***************************************************************************)
EXTENDS Integers

CONSTANT Reach        \* how many slots one may cost whose audio did not end where
                      \* it should, as of a packet that does not decode

VARIABLES held,       \* the copies held
          last        \* the one taken last, of slot -1 when there is none

Kinds == {"network", "noise", "silence", "copy"}
Copies == [n : Nat, kind : Kinds]
NoCopy == [n |-> -1, kind |-> "none"]

Rank == [network |-> 0, noise |-> 0, silence |-> 1, copy |-> 2]

Init == held = {} /\ last = NoCopy

\* A packet and the copy of the one before that it carries.
Packet(c) == c.kind = "copy" \/ \A d \in held' \ held : d = c \/ d.kind = "copy"

Insert ==
    /\ held \subseteq held' /\ held' # held
    /\ \A c \in held' \ held : Packet(c)
    /\ UNCHANGED last

\* A flush, which an arrival may bring about: what arrived is all that is held.
Restart ==
    /\ \A c, d \in held' : c.n - d.n \in -1 .. 1
    /\ last' = NoCopy

\* What may go untaken.
Droppable(c) ==
    \/ c.n <= last.n
    \/ c.kind = "noise"
    \/ last.kind \in {"astray", "unsettled", "silence"} /\ c.n <= last.n + Reach

Drop ==
    /\ held' \subseteq held /\ held' # held
    /\ \A c \in held \ held' : Droppable(c)
    /\ UNCHANGED last

Best(c) == \A d \in held : d.n = c.n => Rank[c.kind] <= Rank[d.kind]

\* The slots from `first` to `final`, nothing useful left out.
Take(first, final) ==
    /\ \/ first.n > last.n
       \/ first.n = last.n /\ last.kind \in {"noise", "astray"}
       \/ last.kind = "unsettled"
    /\ Best(first) /\ Best(final)
    /\ first.n .. final.n \subseteq {c.n : c \in held} 
    /\ \A c \in held : c.n < first.n => Droppable(c)
    /\ held' = {c \in held : c.n > final.n}
    /\ last'.n = final.n /\ last'.kind \in {final.kind, "astray", "unsettled"}

Next ==
    \/ Insert
    \/ Restart
    \/ Drop
    \/ \E first, final \in held : first.n <= final.n /\ Take(first, final)

Spec == Init /\ [][Next]_<<held, last>>
=============================================================================
