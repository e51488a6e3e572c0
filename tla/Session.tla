------------------------------ MODULE Session ------------------------------
(***************************************************************************)
(* The running session: the background tasks (order scheduler, dispute     *)
(* scheduler, trade DM listener), the relay client and the Mostro instance *)
(* they were started with, and the four things that replace them while the *)
(* program runs: a setting saved by the user, a rotation of the identity   *)
(* keys, the connection coming back, and a fatal error.                    *)
(*                                                                         *)
(* The main loop runs one branch at a time.  A key press is handled and    *)
(* the reloads it left pending are run in that same branch, awaits and     *)
(* all; reconnects are run in the branch of the network channel.  The key  *)
(* rotation and the network monitor are tasks of their own.                *)
(***************************************************************************)
EXTENDS Naturals, Sequences

CONSTANTS
  Instances,   \* Mostro instances the settings may name
  BadRelay,    \* whether the settings name a relay the client refuses to add
  MaxKeys,     \* bound: rotations of the identity keys
  MaxFaults    \* bound: lost connections, connects that panic, fatal errors

ASSUME InstancesAssumption == Instances # {}
ASSUME SessionBounds == BadRelay \in BOOLEAN /\ MaxKeys \in Nat /\ MaxFaults \in Nat

VARIABLES
  disk,         \* settings.toml: the instance and the identity key
  db_key,       \* identity key whose mnemonic the database holds
  client,       \* identity key of the relay client
  active,       \* current_mostro_pubkey, which the tasks and new requests share
  tasks,        \* what the background tasks were spawned with; {} once aborted
  fetch_reload, \* pending_fetch_scheduler_reload
  backup,       \* the popup that shows rotated keys is open
  rotation,     \* the key rotation task: its step and the settings it read
  link,         \* whether the relays can be reached
  reachable,    \* what the network monitor last saw
  net,          \* network_status channel
  retries,      \* reconnects due after their five seconds
  overlay,      \* offline_overlay_message
  fatal,        \* fatal_exit_on_close
  faults

tasking == <<client, active, tasks>>
keys    == <<db_key, backup, rotation>>
network == <<link, reachable, net, retries, overlay>>
sessionVars == <<disk, tasking, fetch_reload, keys, network, fatal, faults>>

Settings  == [mostro : Instances, key : 0 .. MaxKeys]
Rotations == [step : {"read", "committed"}, settings : Settings]

Spawned(settings, key) == {[mostro |-> settings.mostro, key |-> key]}

Fault == faults < MaxFaults /\ faults' = faults + 1

-----------------------------------------------------------------------------
(* Reloads run at the end of a key press.                                  *)

\* The tasks were aborted and are spawned again with the settings on disk,
\* on the client there is.
FetchReloadDone ==
  /\ tasks' = Spawned(disk', client)
  /\ active' = disk'.mostro
  /\ fetch_reload' = FALSE
  /\ UNCHANGED faults

\* Mutated: the flag is cleared whether or not the reload succeeded.
FetchReloadForgotten(pubkey) ==
  /\ Fault
  /\ tasks' = {}
  /\ active' = pubkey
  /\ fetch_reload' = FALSE

\* The client's connect panics after the abort: the reload stays pending.
FetchReloadFailed(pubkey) ==
  /\ Fault
  /\ tasks' = {}
  /\ active' = pubkey
  /\ fetch_reload' = TRUE

apply_pending_fetch_scheduler_reload(pubkey) ==
  /\ FetchReloadDone \/ FetchReloadFailed(pubkey)
  /\ UNCHANGED <<client, keys, network, fatal>>

\* Another Mostro instance is confirmed: it is saved and shared at once.
ConfirmMostroPubkey(m) ==
  /\ ~backup
  /\ disk' = [disk EXCEPT !.mostro = m]
  /\ apply_pending_fetch_scheduler_reload(m)

\* A currency filter is confirmed or the filters are cleared.
ConfirmCurrencies ==
  /\ ~backup
  /\ disk' = disk
  /\ apply_pending_fetch_scheduler_reload(active)

\* Any other key press finds the failed reload still pending.
RetryFetchReload ==
  /\ fetch_reload
  /\ disk' = disk
  /\ apply_pending_fetch_scheduler_reload(active)

KeyReloadDone ==
  /\ client' = disk.key
  /\ tasks' = Spawned(disk, disk.key)
  /\ active' = disk.mostro

\* Closing the popup with the rotated keys reloads them; a pending reload of
\* the subscriptions is dropped in favour of it, whether or not it succeeds.
apply_pending_key_reload ==
  /\ backup /\ backup' = FALSE
  /\ IF BadRelay THEN UNCHANGED tasking ELSE KeyReloadDone
  /\ fetch_reload' = FALSE
  /\ UNCHANGED <<disk, db_key, rotation, network, fatal, faults>>

-----------------------------------------------------------------------------
(* Key rotation, one at a time.                                            *)

\* The task reads the settings before it commits the new mnemonic ...
RotateKeys ==
  /\ ~backup /\ rotation = {} /\ db_key < MaxKeys
  /\ rotation' = {[step |-> "read", settings |-> disk]}
  /\ UNCHANGED <<disk, tasking, fetch_reload, db_key, backup, network, fatal, faults>>

CommitUser(r) ==
  /\ r \in rotation /\ r.step = "read"
  /\ db_key' = db_key + 1
  /\ rotation' = {[r EXCEPT !.step = "committed"]}
  /\ UNCHANGED <<disk, tasking, fetch_reload, backup, network, fatal, faults>>

\* ... and renames what it wrote from them into place afterwards.
ReplaceSettings(r) ==
  /\ r \in rotation /\ r.step = "committed"
  /\ disk' = [r.settings EXCEPT !.key = db_key]
  /\ rotation' = {} /\ backup' = TRUE
  /\ UNCHANGED <<tasking, fetch_reload, db_key, network, fatal, faults>>

\* The commit or the rename fails and the user is told so.
RotationFails ==
  /\ rotation # {} /\ Fault
  /\ rotation' = {}
  /\ UNCHANGED <<disk, tasking, fetch_reload, db_key, backup, network, fatal>>

\* A message or a result that arrives takes the place of the popup.
BackupReplaced ==
  /\ backup /\ backup' = FALSE
  /\ UNCHANGED <<disk, tasking, fetch_reload, db_key, rotation, network, fatal, faults>>

-----------------------------------------------------------------------------
(* The connection.                                                         *)

LinkLost ==
  /\ link /\ Fault
  /\ link' = FALSE
  /\ UNCHANGED <<disk, tasking, fetch_reload, keys, reachable, net, retries, overlay, fatal>>

LinkBack ==
  /\ ~link /\ link' = TRUE
  /\ UNCHANGED <<disk, tasking, fetch_reload, keys, reachable, net, retries, overlay, fatal, faults>>

\* The monitor probes every five seconds and reports transitions only.
Monitor ==
  /\ reachable # link
  /\ reachable' = link
  /\ net' = Append(net, IF link THEN "Online" ELSE "Offline")
  /\ UNCHANGED <<disk, tasking, fetch_reload, keys, link, retries, overlay, fatal, faults>>

HandleOffline ==
  /\ net # <<>> /\ Head(net) = "Offline" /\ net' = Tail(net)
  /\ overlay' = TRUE
  /\ UNCHANGED <<disk, tasking, fetch_reload, keys, link, reachable, retries, fatal, faults>>

\* Mutated: a failed reconnect waits for the next transition of the monitor.
RetryNever == UNCHANGED retries

\* What the failure of a reconnect leaves behind.
RetryLater == retries' = retries + 1

\* No relay answers: the tasks are left alone.
Unreachable ==
  /\ ~link
  /\ RetryLater
  /\ UNCHANGED <<active, tasks, faults>>

\* The connect panics after the tasks were aborted.
ReconnectFailed ==
  /\ link /\ Fault
  /\ tasks' = {}
  /\ RetryLater
  /\ UNCHANGED active

ReconnectDone ==
  /\ link
  /\ tasks' = Spawned(disk, client)
  /\ active' = disk.mostro
  /\ UNCHANGED <<retries, faults>>

reload_runtime_session_after_reconnect ==
  Unreachable \/ ReconnectFailed \/ ReconnectDone

HandleOnline ==
  /\ net # <<>> /\ Head(net) = "Online" /\ net' = Tail(net)
  /\ overlay' = FALSE
  /\ reload_runtime_session_after_reconnect
  /\ UNCHANGED <<disk, client, fetch_reload, keys, link, reachable, fatal>>

RetryDue ==
  /\ retries > 0 /\ retries' = retries - 1
  /\ net' = Append(net, "Online")
  /\ UNCHANGED <<disk, tasking, fetch_reload, keys, link, reachable, overlay, fatal, faults>>

\* A poisoned lock or a panicking task: everything is stopped and the user is
\* asked to restart.
FatalError ==
  /\ Fault
  /\ fatal' = TRUE /\ tasks' = {} /\ backup' = FALSE
  /\ UNCHANGED <<disk, client, active, fetch_reload, db_key, rotation, network>>

-----------------------------------------------------------------------------
\* The relays may be out of reach when the program starts.
SessionInit ==
  /\ \E m \in Instances :
       /\ disk = [mostro |-> m, key |-> 0]
       /\ active = m
  /\ db_key = 0 /\ client = 0
  /\ tasks = Spawned(disk, client)
  /\ fetch_reload = FALSE /\ backup = FALSE /\ rotation = {}
  /\ link \in BOOLEAN /\ reachable = link /\ overlay = ~link
  /\ net = <<>> /\ retries = 0
  /\ fatal = FALSE /\ faults = 0

Network == Monitor \/ HandleOffline \/ HandleOnline \/ RetryDue

SessionNext ==
  \/ \E m \in Instances : ConfirmMostroPubkey(m)
  \/ ConfirmCurrencies \/ RetryFetchReload \/ apply_pending_key_reload
  \/ RotateKeys \/ RotationFails \/ BackupReplaced
  \/ \E r \in rotation : CommitUser(r) \/ ReplaceSettings(r)
  \/ LinkLost \/ LinkBack \/ Network \/ FatalError

SessionSpec == SessionInit /\ [][SessionNext]_sessionVars

\* The main loop takes what its channel holds, the monitor's ticks and the
\* timers of the retries come.  Nothing makes the user press a key, and
\* nothing brings the connection back.
FairSessionSpec ==
  /\ SessionSpec
  /\ WF_sessionVars(Monitor) /\ WF_sessionVars(RetryDue)
  /\ WF_sessionVars(HandleOffline) /\ WF_sessionVars(HandleOnline)

-----------------------------------------------------------------------------
(* Properties.                                                             *)

\* Type correctness of the session's state.
SessionTypeOK ==
  /\ disk \in Settings /\ db_key \in 0 .. MaxKeys /\ client \in 0 .. MaxKeys
  /\ active \in Instances
  /\ tasks \subseteq Settings
  /\ fetch_reload \in BOOLEAN /\ backup \in BOOLEAN
  /\ rotation \subseteq Rotations
  /\ link \in BOOLEAN /\ reachable \in BOOLEAN /\ overlay \in BOOLEAN
  /\ net \in Seq({"Online", "Offline"}) /\ retries \in Nat
  /\ fatal \in BOOLEAN /\ faults \in 0 .. MaxFaults

\* Whatever reload or reconnect stopped the background tasks without starting
\* them again has left something that will try once more: the pending reload,
\* a retry, or a report of the connection not yet handled.  Only a fatal error
\* stops them for good (main.rs and async_tasks.rs, "permanent blind window").
Recovering ==
  fetch_reload \/ retries > 0 \/ \E i \in DOMAIN net : net[i] = "Online"

NoBlindWindow == tasks = {} => Recovering \/ fatal

\* If the connection comes back to stay, and the user presses some key while a
\* reload is pending, the tasks run again and the offline overlay is gone.
SessionReturns ==
  WF_sessionVars(RetryFetchReload) /\ <>[]link =>
    <>[](fatal \/ (tasks # {} /\ ~overlay))
=============================================================================
