------------------------------ MODULE Provider ------------------------------
(***************************************************************************)
(* UnifiDirectProvider of src/src/provider.ts over the emulators of        *)
(* Controller: init() with its retry, the camera objects and their online  *)
(* state, and shutdown(), which may begin during any await of init().      *)
(*                                                                         *)
(* One action is what runs between two awaits.  Of a camera object this    *)
(* module has its identity and what Scrypted sees as online; the push      *)
(* registry and the audio endpoint, which have modules of their own, are   *)
(* open or closed.                                                         *)
(***************************************************************************)
EXTENDS Controller

CONSTANT Cams      \* native ids of camera devices

VARIABLES
    init,      \* where init() is: [at, emu, todo]
    current,   \* this.emulator
    heard,     \* the emulators that have the provider's listeners
    retry,     \* initRetryTimer is armed
    running,   \* pairTimer, healthTimer and initialRepairTimer are armed
    cams,      \* Cams -> the camera object
    audio,     \* the audio endpoint
    push,      \* the push registry
    down       \* where shutdown() is: [at, emu]

own == <<init, current, heard, retry, running, cams, audio, push, down>>
vars == <<controller, own>>

\* "abort": shutdown() was seen after the start; "cleanup": the catch block.
InitAt == {"idle", "tls", "listen", "load", "abort", "cleanup"}
DownAt == {"no", "cameras", "audio", "emulator", "push", "done"}

\* pairing: ensurePaired() waits for the camera's MAC.  told: the emulator and
\* the MAC its online state is about, None since its identity changed.
NoCam == [st |-> "none", mac |-> None, online |-> FALSE, pairing |-> FALSE,
          told |-> <<None, None>>]

Attempts == [at : InitAt, emu : Emus \cup {None}, todo : SUBSET Cams]
Cameras == [st : {"none", "live", "releasing"}, mac : Macs \cup {None},
            online : BOOLEAN, pairing : BOOLEAN,
            told : (Emus \cup {None}) \X (Macs \cup {None})]

TypeOK ==
    /\ ControllerTypeOK
    /\ init \in Attempts
    /\ current \in Emus \cup {None} /\ heard \in SUBSET Emus
    /\ retry \in BOOLEAN /\ running \in BOOLEAN
    /\ cams \in [Cams -> Cameras]
    /\ \A k \in Cams : cams[k].st = "none" => cams[k] = NoCam
    /\ init.at \in {"idle", "tls"} <=> init.emu = None
    /\ audio \in {"none", "up"} /\ push \in {"open", "closed"}
    /\ down \in [at : DownAt, emu : Emus \cup {None}]

ShuttingDown == down.at # "no"

\* The cameras Scrypted knows from before are any; startInit() has run.
Init ==
    /\ ControllerInit
    /\ \E stored \in SUBSET Cams : init = [at |-> "tls", emu |-> None, todo |-> stored]
    /\ current = None /\ heard = {} /\ retry = FALSE /\ running = FALSE
    /\ cams = [k \in Cams |-> NoCam]
    /\ audio = "none" /\ push = "open" /\ down = [at |-> "no", emu |-> None]

-----------------------------------------------------------------------------
(* init(). *)

InitGoes(at, e) == init' = [init EXCEPT !.at = at, !.emu = e]

\* The certificate is there: a new emulator, with listeners, starts.
TlsLoaded ==
    /\ init.at = "tls"
    /\ IF ShuttingDown
       THEN InitGoes("idle", None) /\ UNCHANGED <<controller, current, heard>>
       ELSE \E e \in Emus :
                /\ StartServer(e) /\ UNCHANGED <<stopping, conn, sessions>>
                /\ current' = e /\ heard' = heard \cup {e}
                /\ InitGoes("listen", e)
    /\ UNCHANGED <<retry, running, cams, audio, push, down>>

\* The end of the catch block: the timers of a run are cleared and, unless the
\* provider shuts down, init() is tried again later.
GiveUp ==
    /\ current' = IF current = init.emu THEN None ELSE current
    /\ running' = FALSE
    /\ retry' = (retry \/ ~ShuttingDown)
    /\ InitGoes("idle", None)

TlsFails ==
    /\ init.at = "tls" /\ GiveUp
    /\ UNCHANGED <<controller, heard, cams, audio, push, down>>

\* After the await of emulator.start(): it failed, it is not wanted, or it is up.
Started ==
    /\ init.at = "listen" /\ server[init.emu] \in {"up", "closing"} \cup Ended
    /\ IF server[init.emu] = "failed" \/ ShuttingDown \/ current # init.emu
       THEN /\ heard' = heard \ {init.emu}
            /\ Stop(init.emu)
            /\ InitGoes(IF server[init.emu] = "failed" THEN "cleanup" ELSE "abort", init.emu)
       ELSE InitGoes("load", init.emu) /\ UNCHANGED <<controller, heard>>
    /\ UNCHANGED <<current, retry, running, cams, audio, push, down>>

\* Mutant: the next init() does not wait for the stop of the last.
InitStoppedSoon ==
    /\ init.at \in {"abort", "cleanup"}
    /\ IF init.at = "cleanup" THEN GiveUp
       ELSE InitGoes("idle", None) /\ UNCHANGED <<current, retry, running>>
    /\ UNCHANGED <<controller, heard, cams, audio, push, down>>

InitStopped ==
    /\ init.at \in {"abort", "cleanup"} /\ Stopped(init.emu)
    /\ IF init.at = "cleanup" THEN GiveUp
       ELSE InitGoes("idle", None) /\ UNCHANGED <<current, retry, running>>
    /\ UNCHANGED <<controller, heard, cams, audio, push, down>>

\* getDevice(): the object of camera k, made now if it is not there; mac is what
\* its storage holds.
GetDevice(k, mac) ==
    cams' = IF cams[k].st = "live" THEN cams
            ELSE [cams EXCEPT ![k] =
                [NoCam EXCEPT !.st = "live", !.mac = mac, !.told = <<current, mac>>,
                              !.online = IsOnline(current, mac)]]

\* The loop over the stored cameras, one turn.
LoadCamera(k) ==
    /\ init.at = "load" /\ k \in init.todo /\ ~ShuttingDown
    /\ cams[k].st # "releasing"
    /\ \E mac \in Macs \cup {None} : GetDevice(k, mac)
    /\ init' = [init EXCEPT !.todo = @ \ {k}]
    /\ UNCHANGED <<controller, current, heard, retry, running, audio, push, down>>

\* A report to Scrypted rejects: the catch block stops the emulator.
LoadFails ==
    /\ init.at = "load"
    /\ heard' = heard \ {init.emu} /\ Stop(init.emu)
    /\ InitGoes("cleanup", init.emu)
    /\ UNCHANGED <<current, retry, running, cams, audio, push, down>>

\* Mutant: shutdown() during the loop is not noticed after it.
LoadedBlind ==
    /\ init.at = "load" /\ (init.todo = {} \/ ShuttingDown)
    /\ InitGoes("idle", None)
    /\ running' = TRUE /\ audio' \in {audio, "up"}
    /\ UNCHANGED <<controller, current, heard, retry, cams, push, down>>

\* The loop is over: the endpoint is started if a camera wants it, the timers run.
Loaded ==
    /\ init.at = "load" /\ (init.todo = {} \/ ShuttingDown)
    /\ InitGoes("idle", None)
    /\ IF ShuttingDown THEN UNCHANGED <<running, audio>>
       ELSE running' = TRUE /\ audio' \in {audio, "up"}
    /\ UNCHANGED <<controller, current, heard, retry, cams, push, down>>

\* The retry timer; the number of emulators bounds the exploration.
RetryInit ==
    /\ retry /\ retry' = FALSE
    /\ \E e \in Emus : server[e] = "new"
    /\ IF ShuttingDown \/ init.at # "idle" THEN UNCHANGED init
       ELSE \E stored \in SUBSET Cams :
                init' = [at |-> "tls", emu |-> None, todo |-> stored]
    /\ UNCHANGED <<controller, current, heard, running, cams, audio, push, down>>

-----------------------------------------------------------------------------
(* The emulator's events and the cameras. *)

\* 'online' and 'offline': every live camera of that MAC is told.
Tell(e, m, isOnline) ==
    IF e \notin heard \/ ShuttingDown THEN UNCHANGED cams
    ELSE cams' = [k \in Cams |->
             IF cams[k].st = "live" /\ cams[k].mac = m
             THEN [cams[k] EXCEPT !.online = isOnline, !.told = <<e, m>>]
             ELSE cams[k]]

CameraAuthenticated(c) ==
    /\ Authenticated(c) /\ Tell(conn[c].emu, conn[c].mac, TRUE)
    /\ UNCHANGED <<init, current, heard, retry, running, audio, push, down>>

CameraClosed(c) ==
    /\ Closed(c)
    /\ IF IsCurrent(c) THEN Tell(conn[c].emu, conn[c].mac, FALSE) ELSE UNCHANGED cams
    /\ UNCHANGED <<init, current, heard, retry, running, audio, push, down>>

\* createDevice(): the object is made before its MAC is stored.
CreateDevice(k, m) ==
    /\ ~ShuttingDown /\ cams[k].st = "none"
    /\ cams' = [cams EXCEPT ![k] =
           [NoCam EXCEPT !.st = "live", !.mac = m,
                         !.pairing = ~IsOnline(current, m)]]
    /\ UNCHANGED <<controller, init, current, heard, retry, running, audio, push, down>>

\* getDevice() by Scrypted, for a camera whose storage holds the MAC mac.
ScryptedGetsDevice(k, mac) ==
    /\ ~ShuttingDown /\ cams[k].st = "none" /\ GetDevice(k, mac)
    /\ UNCHANGED <<controller, init, current, heard, retry, running, audio, push, down>>

\* ensurePaired(), from repairAll() or a setting: not while the MAC is online.
EnsurePaired(k) ==
    /\ cams[k].st = "live" /\ ~IsOnline(current, cams[k].mac)
    /\ cams' = [cams EXCEPT ![k].pairing = TRUE]
    /\ UNCHANGED <<controller, init, current, heard, retry, running, audio, push, down>>

\* reconcileMac(): the camera answered with its MAC, or did not answer.
Reconcile(k) ==
    /\ cams[k].st = "live" /\ cams[k].pairing
    /\ \E real \in Macs \cup {cams[k].mac} :
           cams' = [cams EXCEPT ![k].pairing = FALSE, ![k].mac = real,
                                ![k].told = IF real = cams[k].mac THEN @ ELSE <<None, None>>]
    /\ UNCHANGED <<controller, init, current, heard, retry, running, audio, push, down>>

\* A new host: the client is destroyed, with what it waits for, and the MAC
\* forgotten.
HostChanged(k) ==
    /\ cams[k].st = "live"
    /\ cams' = [cams EXCEPT ![k].pairing = FALSE, ![k].mac = None, ![k].told = <<None, None>>]
    /\ UNCHANGED <<controller, init, current, heard, retry, running, audio, push, down>>

\* releaseDevice(): the object leaves the map before it is released.
ReleaseDevice(k) ==
    /\ cams[k].st = "live"
    /\ cams' = [cams EXCEPT ![k].st = "releasing"]
    /\ UNCHANGED <<controller, init, current, heard, retry, running, audio, push, down>>

\* release() has let go of everything the object awaits.
CameraReleased(k) ==
    /\ cams[k].st = "releasing"
    /\ cams' = [cams EXCEPT ![k] = NoCam]
    /\ UNCHANGED <<controller, init, current, heard, retry, running, audio, push, down>>

\* ensureAudioRtspServer(), from a camera's setting.
EnableAudio ==
    /\ ~ShuttingDown /\ audio' = "up"
    /\ UNCHANGED <<controller, init, current, heard, retry, running, cams, push, down>>

-----------------------------------------------------------------------------
(* shutdown(). *)

Shutdown ==
    /\ ~ShuttingDown
    /\ retry' = FALSE /\ running' = FALSE
    /\ down' = [at |-> "cameras", emu |-> current]
    /\ current' = None /\ heard' = heard \ {current}
    /\ cams' = [k \in Cams |-> IF cams[k].st = "live"
                    THEN [cams[k] EXCEPT !.st = "releasing"] ELSE cams[k]]
    /\ UNCHANGED <<controller, init, audio, push>>

\* Every camera it took is released; the audio endpoint is asked to stop.
DownCameras ==
    /\ down.at = "cameras" /\ \A k \in Cams : cams[k].st # "releasing"
    /\ down' = [down EXCEPT !.at = "audio"]
    /\ UNCHANGED <<controller, init, current, heard, retry, running, cams, audio, push>>

\* It has stopped; the emulator is next.
DownAudio ==
    /\ down.at = "audio" /\ audio' = "none"
    /\ IF down.emu = None THEN UNCHANGED controller ELSE Stop(down.emu)
    /\ down' = [down EXCEPT !.at = "emulator"]
    /\ UNCHANGED <<init, current, heard, retry, running, cams, push>>

DownEmulator ==
    /\ down.at = "emulator" /\ (down.emu # None => Stopped(down.emu))
    /\ down' = [down EXCEPT !.at = "push"]
    /\ UNCHANGED <<controller, init, current, heard, retry, running, cams, audio, push>>

DownPush ==
    /\ down.at = "push" /\ push' = "closed"
    /\ down' = [down EXCEPT !.at = "done"]
    /\ UNCHANGED <<controller, init, current, heard, retry, running, cams, audio>>

-----------------------------------------------------------------------------
InitSteps ==
    \/ TlsLoaded \/ TlsFails \/ Started \/ InitStopped
    \/ (\E k \in Cams : LoadCamera(k)) \/ LoadFails \/ Loaded \/ RetryInit

DownSteps == DownCameras \/ DownAudio \/ DownEmulator \/ DownPush

\* What the emulators do by themselves.
Listener == \E e \in Emus : Listening(e) \/ ListenFails(e) \/ ServerClosed(e) \/ StopResolved(e)

\* What a camera or its connection does, 'online' and 'offline' apart.
Camera ==
    \/ \E c \in Conns, e \in Emus : Connect(c, e)
    \/ \E c \in Conns, m \in Macs : Upgrade(c, m)
    \/ \E c \in Conns : Reject(c) \/ Hello(c) \/ HandshakeTimer(c)

Devices ==
    \E k \in Cams :
        \/ \E m \in Macs : CreateDevice(k, m)
        \/ \E m \in Macs \cup {None} : ScryptedGetsDevice(k, m)
        \/ EnsurePaired(k) \/ Reconcile(k) \/ HostChanged(k)
        \/ ReleaseDevice(k) \/ CameraReleased(k)

Next ==
    \/ InitSteps \/ DownSteps \/ Devices \/ EnableAudio \/ Shutdown
    \/ ((Listener \/ Camera) /\ UNCHANGED own)
    \/ \E c \in Conns : CameraAuthenticated(c) \/ CameraClosed(c)

Spec == Init /\ [][Next]_vars

\* The runtime goes on with every promise that resolved, every socket that was
\* destroyed closes, timers fire.  Nothing is assumed of a camera: one that was
\* accepted, upgraded or rejected may keep its connection for ever.
Fairness ==
    /\ WF_vars(InitSteps) /\ WF_vars(DownSteps)
    /\ WF_vars(Listener /\ UNCHANGED own)
    /\ \A k \in Cams : WF_vars(CameraReleased(k))
    /\ \A c \in Conns : WF_vars(conn[c].st = "destroyed" /\ CameraClosed(c))

FairSpec == Spec /\ Fairness

-----------------------------------------------------------------------------
(* Properties. *)

\* The plugin never competes with itself for port 7442: a failed start is torn
\* down before the next is tried.  And it does not sit dead: when no init() is
\* under way, one has succeeded or another is scheduled.
OneController ==
    /\ \A e, f \in Emus : e # f => {server[e], server[f]} \cap Ended # {}
    /\ init.at = "idle" /\ ~ShuttingDown => retry # (running /\ server[current] = "up")

\* What Scrypted shows as online is what the emulator says of that camera, as
\* far as the camera was ever told: its MAC and its emulator are still those of
\* the last event.  Only a session that replaced an authenticated one may be
\* short of its handshake.
OnlineAgrees ==
    /\ SessionsAreOwned
    /\ \A k \in Cams :
           cams[k].st = "live" /\ current # None /\ cams[k].told = <<current, cams[k].mac>>
             /\ current \in heard =>
               \/ cams[k].online = IsOnline(current, cams[k].mac)
               \/ cams[k].online /\ sessions[current][cams[k].mac] # None

\* What shutdown() cleaned up stays clean, also when init(), a retry, a camera's
\* message or a call of Scrypted goes on after it: no timer, no camera object,
\* no event; once the emulator is stopped no listener either.
NothingOutlives ==
    /\ ShuttingDown =>
           /\ ~retry /\ ~running /\ current = None
           /\ \A k \in Cams : cams[k].st # "live"
           /\ heard = {}
    /\ down.at \in {"emulator", "push", "done"} => audio = "none"
    /\ down.at \in {"push", "done"} => \A e \in Emus : server[e] \in Ended

\* A connection that keeps a listener from closing and that stop() did not
\* destroy: it had no session then, or its upgrade was rejected.
Held == \E c \in Conns :
            /\ conn[c].st \in {"accepted", "session", "rejected"}
            /\ server[conn[c].emu] = "closing"

\* shutdown() comes to its end, whatever init() was doing, unless cameras that
\* had no session at stop() keep the listener from closing for ever.
ShutdownEnds == []<>~Held => (ShuttingDown ~> down.at = "done")

\* The release of a provider awaits "full listener/port teardown" and so ends.
ShutdownDrains == ShuttingDown ~> down.at = "done"
=============================================================================
