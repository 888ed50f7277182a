---------------------------- MODULE SpotifyPlayer -----------------------------
(* The Spotify player: its login, the token that has to be renewed every hour,   *)
(* the commands to the streaming device, and the status it keeps of it.  The     *)
(* remote calls come one after the other, under the plugs lock; the status loop  *)
(* takes no lock, not even the player's own.  Every call to Spotify may fail.    *)
(* Each thread looks whether the token has expired, renews it if so, hands it to *)
(* the client, calls Spotify and stores what the call means for the status.      *)
(* Who is shown the status is HandoffStatus' matter, what a card does CardSwipe's.*)
EXTENDS Naturals

CONSTANTS
  Secrets,      \* credentials of the application, client_id and client_secret
  NoSecret,     \* the fields were emptied
  Torn,         \* the credential file while it is written
  MaxConfigs,   \* bound on the managers, one after the other
  MaxRestarts   \* bound

ASSUME SpotifyAssumption ==
  /\ NoSecret \notin Secrets /\ Torn \notin Secrets /\ Torn # NoSecret
  /\ MaxConfigs \in Nat \ {0} /\ MaxRestarts \in Nat

NoFile == NoSecret

VARIABLES
  restarts,     \* how often the box has been started again
  wanted,       \* history: the last login or logout, "in" or "out"
  config,       \* which auth_manager, by number, ...
  secret,       \* ... with which credentials, from which its key is made
  credentials,  \* the credential file: for which secret it is encrypted, or none, or torn
  token,        \* the manager's token_info: "none", "valid" or "expired"
  client,       \* sp_client, and whether its token is still good
  loaded,       \* the plugin has been initialised
  known,        \* device_id is known
  device,       \* what Spotify plays: "playing", "paused" or "stopped"
  status,       \* player_status' state
  work          \* [loop, rpc]: what each thread does

spotifyVars ==
  <<restarts, wanted, config, secret, credentials, token, client, loaded, known, device, status, work>>

loginVars == <<restarts, wanted, config, secret, credentials, token, client, loaded>>
playVars == <<known, device, status>>

Idle == [at |-> "idle", job |-> "none", manager |-> 1, key |-> NoSecret, result |-> "none"]

SpotifyInit ==
  /\ restarts = 0 /\ wanted = "out" /\ config = 1 /\ secret \in Secrets /\ credentials = NoFile
  /\ token = "none" /\ client = "none" /\ loaded = TRUE
  /\ known = FALSE /\ device = "stopped" /\ status = "stopped"
  /\ work = [t \in {"loop", "rpc"} |-> Idle]

At(t, place) == work[t].at = place
GoTo(t, place) == work' = [work EXCEPT ![t].at = place]
Done(t) == work' = [work EXCEPT ![t] = Idle]

----------------------------------------------------------------------------
(* A call to Spotify: the loop's poll, a command, or the look at the status   *)
(* before toggle and replay_if_stopped decide.                                *)

\* _require_client: without a login nothing is done.
BeginCall(t, job) ==
  /\ loaded /\ At(t, "idle") /\ client # "none"
  /\ work' = [work EXCEPT ![t] = [Idle EXCEPT !.at = "check", !.job = job]]
  /\ UNCHANGED <<loginVars, playVars>>

\* is_token_expired; there is a token to renew, and a client to give it to.
CheckToken(t) ==
  /\ At(t, "check")
  /\ work' = [work EXCEPT ![t].at = IF token = "expired" /\ client # "none" THEN "renew" ELSE "call",
                          ![t].manager = config, ![t].key = secret]
  /\ UNCHANGED <<loginVars, playVars>>

\* The answer to refresh_access_token: first the file is opened, ...
RenewToken(t) ==
  /\ At(t, "renew")
  /\ credentials' = Torn
  /\ GoTo(t, "save")
  /\ UNCHANGED <<restarts, wanted, config, secret, token, client, loaded, playVars>>

\* ... then written, if it was not removed in between, and the token kept by the
\* manager that asked for it.
SaveToken(t) ==
  /\ At(t, "save")
  /\ credentials' = IF credentials = NoFile THEN NoFile ELSE work[t].key
  /\ token' = IF work[t].manager = config THEN "valid" ELSE token
  /\ GoTo(t, "use")
  /\ UNCHANGED <<restarts, wanted, config, secret, client, loaded, playVars>>

\* Variant: the renewed token is not handed to the client.
UseTokenLater(t) ==
  /\ At(t, "use") /\ GoTo(t, "call")
  /\ UNCHANGED <<loginVars, playVars>>

\* set_auth, on a client that may be gone.
UseToken(t) ==
  /\ At(t, "use")
  /\ client' = IF client = "none" THEN client ELSE "valid"
  /\ GoTo(t, "call")
  /\ UNCHANGED <<restarts, wanted, config, secret, credentials, token, loaded, playVars>>

\* An error is logged, and the call made with the token that is there.
RenewFails(t) ==
  /\ At(t, "renew") /\ GoTo(t, "call")
  /\ UNCHANGED <<loginVars, playVars>>

\* _ensure_device: a device whose id is not known is looked for.
FindDevice(t) ==
  /\ At(t, "call") /\ client = "valid" /\ ~known
  /\ known' = TRUE
  /\ UNCHANGED <<loginVars, device, status, work>>

DeviceDoes == [play |-> "playing", pause |-> "paused", stop |-> "paused"]
StatusSays == [play |-> "playing", pause |-> "paused", stop |-> "stopped"]

\* next, prev, seek: neither what is played nor the state is changed.
Skip(t) ==
  /\ At(t, "call") /\ client = "valid" /\ known /\ work[t].job = "skip"
  /\ Done(t)
  /\ UNCHANGED <<loginVars, playVars>>

\* start_playback, pause_playback (and seek_track).
CommandDevice(t) ==
  /\ At(t, "call") /\ client = "valid" /\ known
  /\ work[t].job \in DOMAIN DeviceDoes
  /\ device' = DeviceDoes[work[t].job]
  /\ work' = [work EXCEPT ![t].at = "store", ![t].result = StatusSays[work[t].job]]
  /\ UNCHANGED <<loginVars, known, status>>

\* current_playback.
FetchStatus(t) ==
  /\ At(t, "call") /\ client = "valid"
  /\ work[t].job \in {"poll", "toggle", "replayIfStopped"}
  /\ work' = [work EXCEPT ![t].at = "store", ![t].result = device]
  /\ UNCHANGED <<loginVars, playVars>>

\* No client, an expired token, a rate limit, no network, no device: the status
\* stays, and what was to be decided by it is decided by what is there.
CallFails(t) ==
  /\ At(t, "call")
  /\ IF work[t].job \in {"toggle", "replayIfStopped"} THEN GoTo(t, "decide") ELSE Done(t)
  /\ UNCHANGED <<loginVars, playVars>>

StoreStatus(t) ==
  /\ At(t, "store")
  /\ status' = work[t].result
  /\ IF work[t].job \in {"toggle", "replayIfStopped"} THEN GoTo(t, "decide") ELSE Done(t)
  /\ UNCHANGED <<loginVars, known, device>>

Decide(t) ==
  /\ At(t, "decide")
  /\ work' = [work EXCEPT ![t] =
       CASE @.job = "toggle" ->
              [Idle EXCEPT !.at = "check", !.job = IF status = "playing" THEN "pause" ELSE "play"]
         [] @.job # "toggle" /\ status = "stopped" -> [Idle EXCEPT !.at = "check", !.job = "play"]
         [] OTHER -> Idle]
  /\ UNCHANGED <<loginVars, playVars>>

----------------------------------------------------------------------------
(* The login, by remote calls.                                                *)

\* authenticate: the code is exchanged, the token saved, a client made, librespot
\* started again with the token, and the device looked for.
Authenticate ==
  /\ loaded /\ At("rpc", "idle") /\ secret # NoSecret
  /\ credentials' = secret /\ token' = "valid" /\ client' = "valid" /\ wanted' = "in"
  /\ known' \in {known, TRUE}
  /\ UNCHANGED <<restarts, config, secret, loaded, device, status, work>>

\* logout: clear_token, of the manager if there is one, and no client.
Logout ==
  /\ loaded /\ At("rpc", "idle")
  /\ credentials' = IF secret = NoSecret THEN credentials ELSE NoFile
  /\ token' = "none" /\ client' = "none"
  /\ wanted' = IF secret = NoSecret THEN wanted ELSE "out"
  /\ UNCHANGED <<restarts, config, secret, loaded, playVars, work>>

\* set_spotify_config: a new manager, which can read the saved token if it was
\* saved with the same credentials, and no client until the next login.
SetConfig(s) ==
  /\ loaded /\ At("rpc", "idle") /\ config < MaxConfigs
  /\ config' = config + 1 /\ secret' = s /\ client' = "none"
  /\ token' = IF s # NoSecret /\ credentials = s THEN "valid" ELSE "none"
  /\ UNCHANGED <<restarts, wanted, credentials, loaded, playVars, work>>

----------------------------------------------------------------------------
(* Time, the device's other users, and a new start.                           *)

\* An hour after it was granted.
TokenExpires ==
  /\ token = "valid" \/ client = "valid"
  /\ token' = IF token = "valid" THEN "expired" ELSE token
  /\ client' = IF client = "valid" THEN "expired" ELSE client
  /\ UNCHANGED <<restarts, wanted, config, secret, credentials, loaded, playVars, work>>

\* The phone, or the end of what is played.
DeviceChanges(d) ==
  /\ device # d /\ device' = d
  /\ UNCHANGED <<loginVars, known, status, work>>

\* A new start: a saved token that has expired is renewed in the manager's
\* constructor, which raises if that fails, and the plugin is not there.
SpotifyRestart ==
  /\ restarts < MaxRestarts /\ restarts' = restarts + 1
  /\ work' = [t \in {"loop", "rpc"} |-> Idle]
  /\ \/ /\ secret = NoSecret \/ credentials # secret
        /\ token' = "none" /\ client' = "none" /\ loaded' = TRUE
     \/ /\ secret # NoSecret /\ credentials = secret
        /\ \/ token' = "valid" /\ client' = "valid" /\ loaded' = TRUE
           \/ token' = "none" /\ client' = "none" /\ loaded' = FALSE
  /\ UNCHANGED <<wanted, config, secret, credentials, playVars>>

CallStep(t) ==
  \/ CheckToken(t) \/ SaveToken(t) \/ UseToken(t) \/ RenewFails(t) \/ CallFails(t)
  \/ StoreStatus(t) \/ Decide(t)

SpotifyNext ==
  \/ BeginCall("loop", "poll")
  \/ \E job \in {"play", "pause", "stop", "skip", "toggle", "replayIfStopped"} : BeginCall("rpc", job)
  \/ \E t \in {"loop", "rpc"} :
       CallStep(t) \/ RenewToken(t) \/ FindDevice(t) \/ Skip(t) \/ CommandDevice(t) \/ FetchStatus(t)
  \/ Authenticate \/ Logout \/ \E s \in Secrets \cup {NoSecret} : SetConfig(s)
  \/ TokenExpires \/ SpotifyRestart
  \/ \E d \in {"playing", "paused", "stopped"} : DeviceChanges(d)

\* The loop goes on, at most five minutes after an error; every call to Spotify
\* ends, by its timeout if by nothing else; one that is repeated is answered at
\* last.
SpotifyFairness ==
  /\ WF_spotifyVars(BeginCall("loop", "poll"))
  /\ \A t \in {"loop", "rpc"} : WF_spotifyVars(CallStep(t))
  /\ SF_spotifyVars(RenewToken("loop")) /\ SF_spotifyVars(FetchStatus("loop"))

SpotifySpec == SpotifyInit /\ [][SpotifyNext]_spotifyVars /\ SpotifyFairness

----------------------------------------------------------------------------

\* However often the token expires, calls fail, or a command and a poll that was
\* under way overwrite each other's status: while there is a login, the status ends
\* up being what the device does, once that does not change and nobody commands it.
StatusFollowsDevice ==
  \A d \in {"playing", "paused", "stopped"} :
    <>[](client # "none" /\ device = d /\ At("rpc", "idle")) => <>[](status = d)

\* "Clear stored token and disconnect the Spotify client" (logout): after a logout no
\* token can be read from the file, and none is used.
LogoutForgets ==
  wanted = "out" => credentials \in {NoFile, Torn} /\ token = "none" /\ client = "none"
=============================================================================
