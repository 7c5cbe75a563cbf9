--------------------------- MODULE TrackOwnership ---------------------------
(***************************************************************************)
(* What the stream layer of one camera promises: every track belongs to at *)
(* most one stream, a push is commanded only for a track that has an       *)
(* owner, and a commanded push ends only together with its owner.          *)
(*                                                                         *)
(* The promise is stated by the comments of getOrCreateStream in           *)
(* src/src/camera.ts and of start() in src/src/direct-stream.ts.           *)
(***************************************************************************)
CONSTANTS Tracks, Insts, NoInst

VARIABLES
    owner,      \* track -> the stream that owns it
    commanded   \* tracks whose push is commanded

vars == <<owner, commanded>>

Init ==
    /\ owner = [t \in Tracks |-> NoInst]
    /\ commanded = {}

\* Command the push of an owned track.
Command(t) ==
    /\ owner[t] # NoInst
    /\ commanded' = commanded \cup {t}
    /\ UNCHANGED owner

\* The owners of T give their tracks up, pushes included; a new stream, one
\* that owned nothing, may take a track over in the same step.
HandOver(T) ==
    /\ commanded' = commanded \ T
    /\ \E next \in [T -> Insts \cup {NoInst}] :
        /\ \A t \in T : next[t] \notin {owner[u] : u \in Tracks} \ {NoInst}
        /\ owner' = [t \in Tracks |-> IF t \in T THEN next[t] ELSE owner[t]]

Next == (\E t \in Tracks : Command(t)) \/ (\E T \in SUBSET Tracks : HandOver(T))

Spec == Init /\ [][Next]_vars
=============================================================================
