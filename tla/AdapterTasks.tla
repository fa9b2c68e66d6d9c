------------------------------ MODULE AdapterTasks ------------------------------
(***************************************************************************)
(* The life of AxAdapter (ax_cli/plugins/platforms/ax/adapter.py): connect *)
(* and disconnect, which Hermes calls one after the other, the task that   *)
(* reads the event stream and the task that sends heartbeats, and the      *)
(* token they share.  All run on one event loop: they change over wherever *)
(* one of them waits for an answer, a step here.  A request whose task is  *)
(* cancelled may or may not have arrived.                                  *)
(***************************************************************************)
EXTENDS Naturals

CONSTANT MaxRevocations    \* bound: tokens the platform stops to take

ASSUME RevocationsAssumption == MaxRevocations \in Nat

VARIABLES
    plugin,         \* off, or where in connect or disconnect; up between the two
    stopping,       \* _stop_event
    jwt,            \* _jwt: none (or about to expire), good, refused by the platform
    sse,            \* _sse_loop: where it waits
    beat,           \* _heartbeat_loop: where it waits
    online,         \* what the platform last heard: connected, offline
    roster,         \* what the local Gateway last heard: live, offline
    revocations,       \* counter, for the bound
    toldOffline,    \* history: the heartbeat of the last disconnect arrived
    beating         \* history: a heartbeat was under way when it began

adapterTasks == <<plugin, stopping, jwt, sse, beat, online, roster, revocations, toldOffline, beating>>

AdapterTasksInit ==
    /\ plugin = "off" /\ sse = "off" /\ beat = "off"
    /\ stopping = FALSE
    /\ jwt = "none"
    /\ online = "unknown" /\ roster = "unknown"
    /\ revocations = 0
    /\ toldOffline = FALSE /\ beating = FALSE

-----------------------------------------------------------------------------
(* The token                                                               *)

(* _get_jwt: the one there is, or one exchanged for the PAT.               *)
HasToken == jwt # "none" /\ UNCHANGED jwt
Exchanges == jwt = "none" /\ jwt' = "good"
GetsToken == HasToken \/ Exchanges
GetsNone == jwt = "none" /\ UNCHANGED jwt

TokenExpires ==
    /\ jwt # "none"
    /\ jwt' = "none"
    /\ UNCHANGED <<plugin, stopping, sse, beat, online, roster, revocations, toldOffline, beating>>

(* It is revoked, or the platform forgets it.                              *)
TokenIsRefused ==
    /\ jwt = "good" /\ revocations < MaxRevocations
    /\ jwt' = "refused"
    /\ revocations' = revocations + 1
    /\ UNCHANGED <<plugin, stopping, sse, beat, online, roster, toldOffline, beating>>

(* _announce_local_gateway and the heartbeat's post: best effort.          *)
TellsRoster(what) == roster' \in {roster, what}
TellsPlatform(what) == online' \in {online, what} /\ (online' # online => jwt # "refused")

-----------------------------------------------------------------------------
(* connect                                                                 *)

ConnectBegins ==
    /\ plugin = "off"
    /\ plugin' = "exchanging" /\ stopping' = FALSE
    /\ UNCHANGED <<jwt, sse, beat, online, roster, revocations, toldOffline, beating>>

ConnectFails ==
    /\ plugin = "exchanging" /\ GetsNone
    /\ plugin' = "off"
    /\ UNCHANGED <<stopping, sse, beat, online, roster, revocations, toldOffline, beating>>

ConnectSucceeds ==
    /\ plugin = "exchanging" /\ GetsToken
    /\ plugin' = "connected" /\ sse' = "opening" /\ beat' = "token"
    /\ toldOffline' = FALSE
    /\ UNCHANGED <<stopping, online, roster, revocations, beating>>

ConnectAnnounces ==
    /\ plugin = "connected"
    /\ plugin' = "up" /\ TellsRoster("live")
    /\ UNCHANGED <<stopping, jwt, sse, beat, online, revocations, toldOffline, beating>>

-----------------------------------------------------------------------------
(* The heartbeat, at once and then every HEARTBEAT_INTERVAL_SECONDS        *)

BeatGetsToken ==
    /\ beat = "token"
    /\ \/ GetsToken /\ beat' = "posting"
       \/ GetsNone /\ beat' = "announcing"
    /\ UNCHANGED <<plugin, stopping, sse, online, roster, revocations, toldOffline, beating>>

BeatPosts ==
    /\ beat = "posting" /\ TellsPlatform("connected")
    /\ beat' = "announcing"
    /\ UNCHANGED <<plugin, stopping, jwt, sse, roster, revocations, toldOffline, beating>>

BeatAnnounces ==
    /\ beat = "announcing" /\ TellsRoster("live")
    /\ beat' = "waits"
    /\ UNCHANGED <<plugin, stopping, jwt, sse, online, revocations, toldOffline, beating>>

BeatWaits ==
    /\ beat = "waits"
    /\ beat' = IF stopping THEN "ended" ELSE "token"
    /\ UNCHANGED <<plugin, stopping, jwt, sse, online, roster, revocations, toldOffline, beating>>

-----------------------------------------------------------------------------
(* The stream                                                              *)

StreamIsOpened ==
    /\ sse = "opening" /\ ~stopping /\ GetsToken /\ jwt' = "good"
    /\ sse' = "open"
    /\ UNCHANGED <<plugin, stopping, beat, online, roster, revocations, toldOffline, beating>>

(* No token, a status other than 200, no connection.                       *)
StreamIsRefused ==
    /\ sse = "opening" /\ ~stopping
    /\ GetsNone \/ GetsToken
    /\ sse' = "backoff"
    /\ UNCHANGED <<plugin, stopping, beat, online, roster, revocations, toldOffline, beating>>

(* An event is dispatched, which tells the roster that the agent thinks.   *)
EventArrives ==
    /\ sse = "open"
    /\ sse' = IF stopping THEN "ended" ELSE "dispatching"
    /\ UNCHANGED <<plugin, stopping, jwt, beat, online, roster, revocations, toldOffline, beating>>

EventIsDispatched ==
    /\ sse = "dispatching" /\ TellsRoster("live")
    /\ sse' = "open"
    /\ UNCHANGED <<plugin, stopping, jwt, beat, online, revocations, toldOffline, beating>>

(* The platform ends the stream, or it breaks.                             *)
StreamIsLost ==
    /\ sse = "open"
    /\ sse' \in {"opening", "backoff"}
    /\ UNCHANGED <<plugin, stopping, jwt, beat, online, roster, revocations, toldOffline, beating>>

BackoffIsOver ==
    /\ sse = "backoff"
    /\ sse' = IF stopping THEN "ended" ELSE "opening"
    /\ UNCHANGED <<plugin, stopping, jwt, beat, online, roster, revocations, toldOffline, beating>>

LoopStops ==
    /\ sse = "opening" /\ stopping
    /\ sse' = "ended"
    /\ UNCHANGED <<plugin, stopping, jwt, beat, online, roster, revocations, toldOffline, beating>>

-----------------------------------------------------------------------------
(* disconnect: offline is told first, then the tasks are cancelled         *)

(* MUTATION of DisconnectBegins: the event is not set.                     *)
DisconnectBeginsUntold ==
    /\ plugin = "up"
    /\ plugin' = "offlineToken"
    /\ beating' = (beat \in {"token", "posting"})
    /\ UNCHANGED <<stopping, jwt, sse, beat, online, roster, revocations, toldOffline>>

DisconnectBegins ==
    /\ plugin = "up"
    /\ stopping' = TRUE
    /\ plugin' = "offlineToken"
    /\ beating' = (beat \in {"token", "posting"})
    /\ UNCHANGED <<jwt, sse, beat, online, roster, revocations, toldOffline>>

OfflineGetsToken ==
    /\ plugin = "offlineToken"
    /\ \/ GetsToken /\ plugin' = "offlinePosts"
       \/ GetsNone /\ plugin' = "offlineAnnounces"
    /\ UNCHANGED <<stopping, sse, beat, online, roster, revocations, toldOffline, beating>>

OfflinePosts ==
    /\ plugin = "offlinePosts" /\ TellsPlatform("offline")
    /\ toldOffline' = (online' = "offline")
    /\ plugin' = "offlineAnnounces"
    /\ UNCHANGED <<stopping, jwt, sse, beat, roster, revocations, beating>>

(* Once by the heartbeat and once by disconnect itself.                    *)
OfflineAnnounces ==
    /\ plugin = "offlineAnnounces" /\ TellsRoster("offline")
    /\ plugin' \in {"offlineAnnounces", "cancelling"}
    /\ UNCHANGED <<stopping, jwt, sse, beat, online, revocations, toldOffline, beating>>

DisconnectEnds ==
    /\ plugin = "cancelling"
    /\ IF beat = "posting" THEN TellsPlatform("connected") ELSE UNCHANGED online
    /\ IF beat = "announcing" \/ sse = "dispatching" THEN TellsRoster("live") ELSE UNCHANGED roster
    /\ plugin' = "off" /\ sse' = "off" /\ beat' = "off"
    /\ UNCHANGED <<stopping, jwt, revocations, toldOffline, beating>>

-----------------------------------------------------------------------------
StreamLoop == StreamIsRefused \/ StreamIsLost \/ BackoffIsOver \/ LoopStops

AdapterTasksNext ==
    \/ TokenExpires \/ TokenIsRefused
    \/ ConnectBegins \/ ConnectFails \/ ConnectSucceeds \/ ConnectAnnounces
    \/ BeatGetsToken \/ BeatPosts \/ BeatAnnounces \/ BeatWaits
    \/ StreamIsOpened \/ EventArrives \/ EventIsDispatched \/ StreamLoop
    \/ DisconnectBegins \/ OfflineGetsToken \/ OfflinePosts \/ OfflineAnnounces \/ DisconnectEnds

AdapterTasksSpec == AdapterTasksInit /\ [][AdapterTasksNext]_adapterTasks

-----------------------------------------------------------------------------
(* Properties                                                              *)

AdapterTasksTypeOK ==
    /\ plugin \in {"off", "exchanging", "connected", "up", "offlineToken", "offlinePosts",
                   "offlineAnnounces", "cancelling"}
    /\ stopping \in BOOLEAN /\ toldOffline \in BOOLEAN /\ beating \in BOOLEAN
    /\ jwt \in {"none", "good", "refused"}
    /\ sse \in {"off", "opening", "open", "dispatching", "backoff", "ended"}
    /\ beat \in {"off", "token", "posting", "announcing", "waits", "ended"}
    /\ online \in {"unknown", "connected", "offline"}
    /\ roster \in {"unknown", "live", "offline"} /\ revocations \in 0..MaxRevocations

(* The last word of a disconnect is offline: a platform that heard it      *)
(* hears no later heartbeat, unless one was under way when disconnect was  *)
(* called.                                                                 *)
OfflineIsLast == plugin = "off" /\ toldOffline /\ ~beating => online = "offline"

(* REFUTED.  "Mark offline before cancelling so the UI updates promptly":  *)
(* a heartbeat under way arrives after the word that the agent is offline. *)
OfflineStays == plugin = "off" /\ toldOffline => online = "offline"
=============================================================================
