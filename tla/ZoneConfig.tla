----------------------------- MODULE ZoneConfig -----------------------------
(***************************************************************************)
(* The zones of one camera: the import of what it has, the queue of        *)
(* applies (CameraZoneManager of src/src/camera-zones.ts) and the apply    *)
(* itself (src/src/camera.ts), which sends the zones over the management   *)
(* session and then takes the privacy masks through a clear, a pause and a *)
(* set over HTTP.                                                          *)
(*                                                                         *)
(* A configuration is whether there is a motion zone, and a set of privacy *)
(* masks.  The smart-detect family is left out: every apply sends all of   *)
(* it, whatever was sent before.  What is stored survives the object.      *)
(***************************************************************************)
EXTENDS FiniteSets

CONSTANTS
    Masks       \* privacy masks

VARIABLES
    stored,     \* the zones in the storage
    flags,      \* what the storage remembers of earlier applies and imports
    camera,     \* the zones the camera has
    session,    \* its management session
    live,       \* the camera object is there and not released
    import,     \* importCameraZones() under way
    thenApply,  \* an 'online' handler waits for it, to apply
    queued,     \* applyQueued
    apply,      \* the apply under way, with the zones it has read
    waiting,    \* callers of applyZones() wait for the queued run, for this one
    saved,      \* the user saved something no apply has read
    owed        \* what the last apply read, none where a write of it was lost,
                \* and the masks that were lost since any were written

storage == <<stored, flags>>
ghosts == <<saved, owed>>
vars == <<storage, camera, session, live, import, thenApply, queued, apply, waiting, ghosts>>

Zones == [motion : BOOLEAN, masks : SUBSET Masks]

NoZones == [motion |-> FALSE, masks |-> {}]

ImportAt == {"idle", "masks", "smart", "motion"}
ApplyAt == {"idle", "features", "clearing", "settling", "setting"}

Imports == [at : ImportAt, got : Zones, ok : BOOLEAN]
Applies == [at : ApplyAt, zones : Zones]
Owed == [motion : SUBSET BOOLEAN, masks : SUBSET SUBSET Masks,
         lost : SUBSET SUBSET Masks]
Runs == {"next", "this"}

NoImport == [at |-> "idle", got |-> NoZones, ok |-> TRUE]
NoApply == [at |-> "idle", zones |-> NoZones]

\* imported: zonesImportedV2; motion: motionApplied; count: privacyCount is not 0;
\* fp: privacyMasksFp, none or one.
Flags == [imported : BOOLEAN, motion : BOOLEAN, count : BOOLEAN,
          fp : SUBSET SUBSET Masks]

TypeOK ==
    /\ stored \in Zones /\ flags \in Flags /\ camera \in Zones
    /\ session \in {"none", "handshake", "online"} /\ live \in BOOLEAN
    /\ import \in Imports /\ apply \in Applies
    /\ {thenApply, queued, saved} \subseteq BOOLEAN /\ waiting \subseteq Runs
    /\ owed \in Owed
    /\ ~live => import.at = "idle" /\ apply.at = "idle" /\ ~queued /\ waiting = {}

\* A camera just added; it may have zones and masks of its own.
Init ==
    /\ stored = NoZones
    /\ flags = [imported |-> FALSE, motion |-> FALSE, count |-> FALSE, fp |-> {}]
    /\ camera \in Zones
    /\ session = "none" /\ live = TRUE
    /\ import = NoImport /\ thenApply = FALSE
    /\ queued = FALSE /\ apply = NoApply /\ waiting = {}
    /\ saved = FALSE
    /\ owed = [motion |-> {camera.motion} \cap {FALSE}, masks |-> {camera.masks} \cap {{}},
               lost |-> {}]

-----------------------------------------------------------------------------
(* The queue of applies. *)

\* Mutant: a save that comes while an apply runs joins that apply.
QueueIfIdle == queued' = (queued \/ (live /\ apply.at = "idle"))

\* queueApply(): one follow-up is enough, it reads what is stored when it runs.
QueueApply == queued' = live

\* A setting of a zone is saved; its caller waits for the apply.
Save ==
    /\ live
    /\ stored' \in Zones \ {stored}
    /\ QueueApply /\ waiting' = waiting \cup {"next"} /\ saved' = TRUE
    /\ UNCHANGED <<flags, camera, session, live, import, thenApply, apply, owed>>

\* The apply under way is over and its callers are answered.
Finish ==
    /\ apply' = NoApply
    /\ waiting' = waiting \ {"this"}

\* The queued run starts: without a session it is over at once and has read
\* nothing, else it reads the zones and waits for the camera's features.
BeginApply ==
    /\ queued /\ apply.at = "idle"
    /\ queued' = FALSE
    /\ IF session = "none"
       THEN waiting' = {} /\ UNCHANGED <<apply, ghosts>>
       ELSE /\ apply' = [at |-> "features", zones |-> stored]
            /\ saved' = FALSE
            /\ owed' = [owed EXCEPT
                   !.motion = IF @ = {} THEN {} ELSE {stored.motion},
                   !.masks = IF @ = {} THEN {} ELSE {stored.masks}]
            /\ waiting' = IF "next" \in waiting THEN {"this"} ELSE {}
    /\ UNCHANGED <<storage, camera, session, live, import, thenApply>>

\* buildZonePayloads(): motion zones are sent when there are any, or when those
\* of an earlier apply have to go.
SendsMotion(z) == z.motion \/ flags.motion

\* applyPrivacyMasks() sends nothing: no mask now or before, or the same ones.
MasksAreDone(z) == (z.masks = {} /\ ~flags.count) \/ z.masks \in flags.fp

\* The features are there (or cannot be read): the commands go out, to nobody
\* if the session has ended, and the masks are next.
SendZones ==
    /\ apply.at = "features"
    /\ LET z == apply.zones
           sent == session # "none"
       IN  /\ IF SendsMotion(z)
              THEN /\ camera' = IF sent THEN [camera EXCEPT !.motion = z.motion] ELSE camera
                   /\ owed' = [owed EXCEPT !.motion = IF sent THEN {z.motion} ELSE {}]
              ELSE UNCHANGED <<camera, owed>>
           /\ flags' = [flags EXCEPT !.motion = z.motion]
           /\ IF MasksAreDone(z) THEN Finish
              ELSE apply' = [apply EXCEPT !.at = "clearing"] /\ UNCHANGED waiting
    /\ UNCHANGED <<stored, session, live, import, thenApply, queued, saved>>

\* The masks are stored as applied.
Latch(z) ==
    /\ flags' = [flags EXCEPT !.count = z.masks # {}, !.fp = {z.masks}]
    /\ owed' = [owed EXCEPT !.masks = {z.masks}, !.lost = {}]

\* The sequence under way does not get to its end.
MasksLost == [owed EXCEPT !.masks = {}, !.lost = @ \cup {apply.zones.masks}]

\* Mutant: the masks are stored as applied, whether that failed or not.
WriteFailsLatched(masks) ==
    /\ camera' \in {camera, [camera EXCEPT !.masks = masks]}
    /\ owed' = MasksLost
    /\ flags' = [flags EXCEPT !.count = apply.zones.masks # {}, !.fp = {apply.zones.masks}]
    /\ Finish

\* A write fails: the camera may have done it all the same.
WriteFails(masks) ==
    /\ camera' \in {camera, [camera EXCEPT !.masks = masks]}
    /\ owed' = MasksLost
    /\ Finish /\ UNCHANGED flags

\* The standalone clear of every index is answered.
Cleared ==
    /\ apply.at = "clearing"
    /\ \/ /\ camera' = [camera EXCEPT !.masks = {}]
          /\ IF apply.zones.masks = {} THEN Latch(apply.zones) /\ Finish
             ELSE /\ apply' = [apply EXCEPT !.at = "settling"]
                  /\ UNCHANGED <<flags, owed, waiting>>
       \/ WriteFails({})
    /\ UNCHANGED <<stored, session, live, import, thenApply, queued, saved>>

\* The 3 s are over.
Settled ==
    /\ apply.at = "settling"
    /\ apply' = [apply EXCEPT !.at = "setting"]
    /\ UNCHANGED <<storage, camera, session, live, import, thenApply, queued, waiting, ghosts>>

\* The set of the masks is answered.
MasksSet ==
    /\ apply.at = "setting"
    /\ \/ /\ camera' = [camera EXCEPT !.masks = apply.zones.masks]
          /\ Latch(apply.zones) /\ Finish
       \/ WriteFails(apply.zones.masks)
    /\ UNCHANGED <<stored, session, live, import, thenApply, queued, saved>>

-----------------------------------------------------------------------------
(* The import of the camera's own zones. *)

\* importCameraZones() joins the one under way, and is over once latched.
StartImport ==
    IF flags.imported \/ import.at # "idle" THEN UNCHANGED import
    ELSE import' = [NoImport EXCEPT !.at = "masks"]

\* The settings page imports as well, whatever the management session is.
LazyImport ==
    /\ live /\ StartImport
    /\ UNCHANGED <<storage, camera, session, live, thenApply, queued, apply, waiting, ghosts>>

\* What was read is stored; it is latched when no reply is missing.  An 'online'
\* handler that waits goes on to apply.
EndImport(i) ==
    /\ import' = NoImport
    /\ stored' = [motion |-> stored.motion \/ i.got.motion,
                  masks |-> stored.masks \cup i.got.masks]
    /\ flags' = [flags EXCEPT
           !.imported = @ \/ i.ok,
           !.count = @ \/ (i.got # NoZones /\ stored'.masks # {})]
    /\ queued' = (queued \/ thenApply) /\ thenApply' = FALSE

\* The masks over HTTP, if they can be read.  Without a session that is all.
MasksRead ==
    /\ import.at = "masks"
    /\ \E masks \in {camera.masks, {}} :
           LET i == [import EXCEPT !.got.masks = masks]
           IN  IF session = "none" THEN EndImport(i)
               ELSE import' = [i EXCEPT !.at = "smart"]
                    /\ UNCHANGED <<storage, queued, thenApply>>
    /\ UNCHANGED <<camera, session, live, apply, waiting, ghosts>>

\* An empty ChangeSmartDetectSettings, up to four times: a reply, or none.
SmartRead ==
    /\ import.at = "smart"
    /\ \/ /\ session # "none"
          /\ import' = [import EXCEPT !.at = "motion"]
       \/ import' = [import EXCEPT !.at = "motion", !.ok = FALSE]
    /\ UNCHANGED <<storage, camera, session, live, thenApply, queued, apply, waiting, ghosts>>

\* An empty ChangeSmartMotionSettings likewise.
MotionRead ==
    /\ import.at = "motion"
    /\ \/ session # "none" /\ EndImport([import EXCEPT !.got.motion = camera.motion])
       \/ EndImport([import EXCEPT !.ok = FALSE])
    /\ UNCHANGED <<camera, session, live, apply, waiting, ghosts>>

-----------------------------------------------------------------------------
(* The session and the life of the object. *)

Connect ==
    /\ session' = IF session = "none" THEN "handshake" ELSE "none"
    /\ UNCHANGED <<storage, camera, live, import, thenApply, queued, apply, waiting, ghosts>>

\* Mutant: the apply belongs to the import, and there is none once that is latched.
OnlineImports ==
    /\ session = "handshake" /\ session' = "online"
    /\ IF live /\ ~flags.imported THEN StartImport /\ thenApply' = TRUE
       ELSE UNCHANGED <<import, thenApply>>
    /\ UNCHANGED <<storage, camera, live, queued, apply, waiting, ghosts>>

\* 'online': import, then apply.
Online ==
    /\ session = "handshake" /\ session' = "online"
    /\ IF ~live THEN UNCHANGED <<import, thenApply, queued>>
       ELSE IF flags.imported THEN QueueApply /\ UNCHANGED <<import, thenApply>>
       ELSE StartImport /\ thenApply' = TRUE /\ UNCHANGED queued
    /\ UNCHANGED <<storage, camera, live, apply, waiting, ghosts>>

\* A request that is out may still be carried out.
Late ==
    camera' \in {camera, [camera EXCEPT !.masks =
        IF apply.at = "clearing" THEN {}
        ELSE IF apply.at = "setting" THEN apply.zones.masks ELSE @]}

\* What the apply under way had still to write is lost.
Lost ==
    owed' = CASE apply.at = "idle"     -> owed
              [] apply.at = "features" -> [owed EXCEPT !.motion = {}, !.masks = {}]
              [] OTHER                 -> MasksLost

\* Mutant: the waits of an import are not aborted.
ReleaseImporting ==
    /\ live /\ live' = FALSE
    /\ queued' = FALSE /\ apply' = NoApply /\ waiting' = {}
    /\ Late /\ Lost
    /\ UNCHANGED <<storage, session, saved, import, thenApply>>

\* Mutant: the callers are not answered.
ReleaseSilent ==
    /\ live /\ live' = FALSE
    /\ import' = NoImport /\ thenApply' = FALSE /\ queued' = FALSE /\ apply' = NoApply
    /\ Late /\ Lost
    /\ UNCHANGED <<storage, session, saved, waiting>>

\* Mutant: the pause and the requests of an apply are not aborted.
ReleaseApplying ==
    /\ live /\ live' = FALSE
    /\ import' = NoImport /\ thenApply' = FALSE /\ queued' = FALSE /\ waiting' = {}
    /\ Late /\ Lost
    /\ UNCHANGED <<storage, session, saved, apply>>

\* release(): every wait is aborted and every caller answered; a write that is
\* out may still reach the camera.
Release ==
    /\ live /\ live' = FALSE
    /\ import' = NoImport /\ thenApply' = FALSE
    /\ queued' = FALSE /\ apply' = NoApply /\ waiting' = {}
    /\ Late /\ Lost
    /\ UNCHANGED <<storage, session, saved>>

\* The next object of the camera finds what is stored, and with it what its
\* predecessor had not applied; the 'online' that would do it is over if the
\* session has stayed, and only the next one counts.
Construct ==
    /\ ~live /\ live' = TRUE
    /\ saved' = (saved /\ session # "online")
    /\ UNCHANGED <<storage, camera, session, import, thenApply, queued, apply, waiting, owed>>

-----------------------------------------------------------------------------
ApplySteps == BeginApply \/ SendZones \/ Cleared \/ Settled \/ MasksSet

ImportSteps == MasksRead \/ SmartRead \/ MotionRead

Next ==
    \/ Save \/ ApplySteps \/ LazyImport \/ ImportSteps
    \/ Connect \/ Online \/ Release \/ Construct

Spec == Init /\ [][Next]_vars

\* Requests of the camera have deadlines, and the pause is a timer.
FairSpec == Spec /\ WF_vars(ApplySteps)

-----------------------------------------------------------------------------
(* Properties. *)

\* A save is not lost, whatever comes between it and its apply: as long as no
\* apply has read it, one is queued, or an 'online' handler waits for the import
\* to queue one, or the camera's next 'online' is still to come and will.
SavesAreApplied ==
    live /\ saved => \/ queued
                     \/ thenApply /\ import.at # "idle"
                     \/ session # "online"

\* When no apply is under way, the camera has what the last one read, except where
\* a write of it was lost: what the storage remembers of earlier applies and
\* imports never makes an apply skip too much.
LastReadIsOn ==
    apply.at = "idle" =>
        owed.motion \subseteq {camera.motion} /\ owed.masks \subseteq {camera.masks}

\* Masks whose write was lost are not taken for applied: the next apply that
\* reads them sends them again.
LostIsRetried == \A z \in Zones : z.masks \in owed.lost => ~MasksAreDone(z)

\* The last save is on the camera, or an apply that will read it is to come, or
\* its write was lost and is made again by the next apply.
LatestConfig == SavesAreApplied /\ LastReadIsOn /\ LostIsRetried

\* A released object writes nothing: its storage is the next object's.
ReleasedWritesNothing == [][~live => UNCHANGED <<storage, camera>>]_vars

\* Whoever saved a setting gets an answer, also when the camera does not answer
\* or the object is released meanwhile.
SaversSettle == \A run \in Runs : run \in waiting ~> run \notin waiting

\* "Skip the sequence when the desired masks equal what was last applied"
\* (camera.ts): masks that are skipped as applied are on the camera.
SkippedMasksAreOn ==
    [][apply.at = "features" /\ apply'.at = "idle" /\ apply.zones.masks \in flags.fp
       => camera'.masks = apply.zones.masks \/ ~live']_vars

\* "Only latch imported once the mgmt reads actually succeeded" (camera.ts).
ImportedMeansRead ==
    [][flags'.imported /\ ~flags.imported => import.at = "motion" /\ import.ok]_vars
=============================================================================
