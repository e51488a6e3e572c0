---------------------------- MODULE ChatRouter ----------------------------
(***************************************************************************)
(* The shared-key chats: the router task that subscribes to the tracked    *)
(* chats and backfills their history, the bounded channel from it to the   *)
(* interface, and the interface's handler that shows the messages, appends *)
(* them to the transcript files and records their ids.                     *)
(*                                                                         *)
(* A user's chat is the one with the counterparty of an order, an admin's  *)
(* the one with a party of a dispute.  A message is a record of its inner  *)
(* event id, its signer, its time, its text, whether it carries an         *)
(* attachment and the envelope it is sent in.  Subscribing and fetching    *)
(* are awaits; the router applies nothing else meanwhile, and the relays   *)
(* go on receiving messages.                                               *)
(***************************************************************************)
EXTENDS Naturals, Sequences, SequencesExt, FiniteSets, FiniteSetsExt, TLC

CONSTANTS
  Chats,
  Messages,    \* what may be written, by the parties and by others
  LongTexts,   \* texts the file keeps wrapped, so that they read differently
  Legacy,      \* messages an older version kept only a placeholder of
  Burst,       \* CHAT_RATE_BURST: tokens of a full bucket
  OuterCap,    \* CHAT_SEEN_OUTER_CAP
  QueueCap,    \* CHAT_UPDATE_CAPACITY
  MaxClock,    \* bound: the last second
  MaxFaults,   \* bound: failures and redeliveries
  MaxSpawns    \* bound: respawns and restarts

Signers   == {"self", "peer", "stranger"}
Envelopes == {"kind14", "giftwrap"}

ASSUME MessagesAssumption ==
  /\ IsFiniteSet(Messages)
  /\ \A m \in Messages :
       /\ m.chat \in Chats /\ m.by \in Signers /\ m.envelope \in Envelopes
       /\ m.ts \in Nat /\ m.att \in BOOLEAN
  /\ \A m, n \in Messages : m.id = n.id => m = n
ASSUME LegacyAssumption ==
  \A m \in Legacy : m \in Messages /\ m.by = "peer" /\ m.att
ASSUME ChatBounds ==
  /\ IsFiniteSet(Chats)
  /\ Burst \in Nat \ {0} /\ OuterCap \in Nat \ {0} /\ QueueCap \in Nat \ {0}
  /\ MaxClock \in Nat /\ MaxFaults \in Nat /\ MaxSpawns \in Nat

\* What the theorems about the transcripts suppose: names of attachments are short,
\* so that the file keeps them, and their old placeholders, as they are; and nobody
\* types a text that reads like one of those placeholders.
NamesAreClear ==
  \A m \in Messages : m.att =>
    m.text \notin LongTexts /\ \A n \in Messages : n.text = m.text => n.att

VARIABLES
  role,      \* user_role: the chats are a user's or an admin's
  clock,     \* local time
  relay,     \* the messages the relays hold
  stamp,     \* time of the messages of our own, once written
  open,      \* each chat is "new", "open" (its order or dispute is), "closed" or
             \* "forgotten": closed, and the interface has let go of its lines
  listed,    \* admin: the disputes the interface has in its list
  cmds,      \* commands the router has not received
  pc,        \* what the router task is doing
  targets,   \* the chats it tracks, each with its since
  pending_hydration,  \* the histories it has still to fetch
  live,      \* the chats of its subscription
  notes,     \* events of the subscription it has not read
  outer,     \* seen_outer, oldest first
  inner,     \* seen_inner
  tokens,    \* rate_limiters
  updates,   \* the channel to the interface
  file,      \* transcript files
  ids,       \* files of inner ids (a process-wide cache reads through them)
  mem,       \* order_chats, admin_dispute_chats
  seen,      \* order_chat_last_seen, admin_chat_last_seen
  rowSeen,   \* admin: the last-seen column of the dispute row
  deaf,      \* chats the last subscription attempt failed to take in
  lost,      \* messages of the other party a failure kept from the transcript
  faults,
  spawns

world  == <<role, clock, relay, stamp, spawns>>
router == <<pc, targets, pending_hydration, live, notes, outer, inner, tokens>>
screen == <<file, ids, mem, seen, rowSeen>>
ghosts == <<deaf, lost, faults>>
chatVars == <<world, open, listed, cmds, router, updates, screen, ghosts>>

Min2(a, b) == IF a < b THEN a ELSE b
Max2(a, b) == IF a < b THEN b ELSE a
Latest(times) == Max(times \cup {0})
Failures(n) == faults' = faults + n /\ faults + n <= MaxFaults

time(m) == IF m.by = "self" THEN stamp[m.id] ELSE m.ts

\* A line of a transcript.
Line(m) == [by |-> m.by, ts |-> time(m), text |-> m.text, att |-> m.att,
            wrapped |-> FALSE]
PlaceholderOf(line) == [line EXCEPT !.att = FALSE]
legacy_placeholder_matches_filename(old, line) ==
  line.att /\ ~old.att /\ old.text = line.text

\* The form a line has in the file, and after the file is read again.
FileForm(line) ==
  [line EXCEPT !.wrapped = @ \/ (~line.att /\ line.text \in LongTexts)]

\* Attachments are compared by their place or name, other lines word by word.
SameMessage(old, line) ==
  /\ old.by = line.by /\ old.ts = line.ts /\ old.text = line.text
  /\ line.att \/ old.wrapped = line.wrapped

\* The router's allow-list: the two parties of the chat.
allowed_signers(c) == {"self", "peer"}
unwrap_from_anyone(m) == TRUE
unwrap_ok(m) == m.by \in allowed_signers(m.chat)

clamp_chat_since_cursor_now(ts) == Min2(ts, clock)
order_chat_since_from_file(c) ==
  clamp_chat_since_cursor_now(Latest({file[c][i].ts : i \in DOMAIN file[c]}))
dispute_chat_since_from_file(c) ==
  LET peers == {i \in DOMAIN file[c] : file[c][i].by = "peer"}
  IN  clamp_chat_since_cursor_now(Latest({file[c][i].ts : i \in peers}))

Track(c, since) == [do |-> "track", chat |-> c, since |-> since]
Untrack(c)      == [do |-> "untrack", chat |-> c]

-----------------------------------------------------------------------------
\* The router task is spawned anew, with nothing in its memory.
Reborn ==
  /\ pc' = "idle"
  /\ targets' = <<>> /\ pending_hydration' = <<>> /\ live' = {} /\ notes' = <<>>
  /\ outer' = <<>>
  /\ inner' = [c \in Chats |-> {}]
  /\ tokens' = [c \in Chats |-> Burst]
  /\ deaf' = {}
  /\ spawns < MaxSpawns /\ spawns' = spawns + 1

track_startup_chats(cs, since) ==
  SetToSeq({Track(c, clamp_chat_since_cursor_now(since[c])) : c \in cs})

OpenChats == {c \in Chats : open[c] = "open"}

\* The cursor the start computes from the files, and from the rows of disputes.
cursor_at_start(c) ==
  IF role = "user" THEN order_chat_since_from_file(c)
  ELSE Max2(clamp_chat_since_cursor_now(rowSeen[c]), dispute_chat_since_from_file(c))

\* An older version may have left a chat whose file holds placeholders.
ChatInit ==
  /\ role \in {"user", "admin"}
  /\ clock = 1
  /\ relay = Legacy \cup {m \in Messages : m.by = "stranger"}
  /\ stamp = [i \in {m.id : m \in {n \in Messages : n.by = "self"}} |-> 0]
  /\ \E old \in SUBSET Legacy :
       /\ open = [c \in Chats |-> IF \E m \in old : m.chat = c THEN "open" ELSE "new"]
       /\ file = [c \in Chats |->
            SetToSeq({PlaceholderOf(Line(m)) : m \in {n \in old : n.chat = c}})]
  /\ mem = file
  /\ ids = [c \in Chats |-> {}]
  /\ listed = OpenChats
  /\ rowSeen = [c \in Chats |-> 0]
  /\ seen = [c \in Chats |-> cursor_at_start(c)]
  /\ cmds = track_startup_chats(OpenChats, seen)
  /\ pc = "idle" /\ targets = <<>> /\ pending_hydration = <<>> /\ live = {} /\ notes = <<>>
  /\ outer = <<>> /\ inner = [c \in Chats |-> {}] /\ tokens = [c \in Chats |-> Burst]
  /\ updates = <<>>
  /\ deaf = {} /\ lost = {} /\ faults = 0 /\ spawns = 0

\* The process ends anywhere, and is started again: it reads what is open.
Restart ==
  /\ open' = [c \in Chats |-> IF open[c] = "closed" THEN "forgotten" ELSE open[c]]
  /\ mem' = [c \in Chats |-> IF open[c] = "open" THEN file[c] ELSE <<>>]
  /\ seen' = [c \in Chats |-> IF open[c] = "open" THEN cursor_at_start(c) ELSE 0]
  /\ listed' = OpenChats
  /\ cmds' = track_startup_chats(OpenChats, seen')
  /\ Reborn
  /\ updates' = <<>>
  /\ UNCHANGED <<role, clock, relay, stamp, file, ids, rowSeen, lost, faults>>

\* respawn_chat_listener: a reload or a reconnect replaces the task alone.
Respawn ==
  /\ cmds' = track_startup_chats(OpenChats \cap listed, seen)
  /\ Reborn
  /\ UNCHANGED <<role, clock, relay, stamp, open, listed, updates, screen, lost, faults>>

\* A second passes; the buckets fill up.
Tick ==
  /\ clock < MaxClock
  /\ clock' = clock + 1
  /\ tokens' = [c \in Chats |-> Min2(Burst, tokens[c] + 1)]
  /\ UNCHANGED <<role, relay, stamp, spawns, open, listed, cmds, pc, targets,
                 pending_hydration, live, notes, outer, inner, updates, screen, ghosts>>
-----------------------------------------------------------------------------
\* The chats open and close (the trade messages and dispute handlers decide).

\* maybe_track_order_chat; taking a dispute, whose row the interface lists later.
Open(c) ==
  /\ open[c] = "new"
  /\ open' = [open EXCEPT ![c] = "open"]
  /\ cmds' = Append(cmds, Track(c, IF role = "user" THEN order_chat_since_from_file(c)
                                   ELSE dispute_chat_since_from_file(c)))
  /\ listed' = IF role = "user" THEN listed \cup {c} ELSE listed
  /\ UNCHANGED <<world, router, updates, screen, ghosts>>

List(c) ==
  /\ open[c] = "open" /\ c \notin listed
  /\ listed' = listed \cup {c}
  /\ UNCHANGED <<world, open, cmds, router, updates, screen, ghosts>>

\* Every later trade message of the order tracks its chat again.
Again(c) ==
  /\ role = "user" /\ open[c] = "open" /\ cmds = <<>>
  /\ Failures(1)
  /\ cmds' = Append(cmds, Track(c, order_chat_since_from_file(c)))
  /\ UNCHANGED <<world, open, listed, router, updates, screen, deaf, lost>>

CloseChat(c) ==
  /\ open[c] = "open"
  /\ open' = [open EXCEPT ![c] = "closed"]
  /\ cmds' = Append(cmds, Untrack(c))
  /\ listed' = listed \ {c}
  /\ UNCHANGED <<world, router, updates, screen, ghosts>>

\* remove_many_orders_from_messages_tab: the closed order is deleted from history.
\* What the router has passed on of it by then is still shown and written, now that
\* nothing shown tells a line that comes again.
Forget(c) ==
  /\ role = "user" /\ open[c] = "closed"
  /\ open' = [open EXCEPT ![c] = "forgotten"]
  /\ mem' = [mem EXCEPT ![c] = <<>>]
  /\ seen' = [seen EXCEPT ![c] = 0]
  /\ UNCHANGED <<world, listed, cmds, router, updates, file, ids, rowSeen, ghosts>>
-----------------------------------------------------------------------------
\* Messages reach the relays, and from there the subscription.

Lose(msgs) == lost' = lost \cup {m \in msgs : m.by = "peer"}

Hear(m) ==
  /\ notes' = IF m.chat \in live THEN Append(notes, m) ELSE notes
  /\ Lose(IF m.chat \in deaf THEN {m} ELSE {})

Publish(m) ==
  /\ m \notin relay
  /\ m.by = "self" => stamp[m.id] > 0
  /\ relay' = relay \cup {m}
  /\ Hear(m)
  /\ UNCHANGED <<role, clock, stamp, spawns, open, listed, cmds, pc, targets,
                 pending_hydration, live, outer, inner, tokens, updates, screen, deaf,
                 faults>>

\* Another relay hands the event over again, or the receiver lags and skips it.
Redeliver(m) ==
  /\ m \in relay /\ m.chat \in live /\ Failures(1)
  /\ notes' = Append(notes, m)
  /\ UNCHANGED <<world, open, listed, cmds, pc, targets, pending_hydration, live, outer,
                 inner, tokens, updates, screen, deaf, lost>>

Skip ==
  /\ notes # <<>> /\ Failures(1)
  /\ notes' = Tail(notes)
  /\ Lose({Head(notes)})
  /\ UNCHANGED <<world, open, listed, cmds, pc, targets, pending_hydration, live, outer,
                 inner, tokens, updates, screen, deaf>>

\* What save_order_chat_message and save_chat_message leave in the file: the
\* line once more, unless it is the last one already.
Saved(lines, line) ==
  IF lines # <<>> /\ SameMessage(Last(lines), FileForm(line)) THEN lines
  ELSE Append(lines, FileForm(line))

\* We write a message.  A user's must be saved before it is shown and sent; an
\* admin's is shown and sent whether it could be saved or not.
Send(m) ==
  /\ m.by = "self" /\ stamp[m.id] = 0 /\ open[m.chat] = "open" /\ m.chat \in listed
  /\ stamp' = [stamp EXCEPT ![m.id] = clock]
  /\ LET line == Line(m)' IN
       /\ mem' = [mem EXCEPT ![m.chat] = Append(@, line)]
       /\ \/ file' = [file EXCEPT ![m.chat] = Saved(@, line)]
          \/ role = "admin" /\ UNCHANGED file
  /\ UNCHANGED <<role, clock, relay, spawns, open, listed, cmds, router, updates, ids, seen,
                 rowSeen, ghosts>>
-----------------------------------------------------------------------------
\* The router task.

\* apply_chat_router_cmd and the bookkeeping of the loop, on the router's memory r.
apply_chat_router_cmd(r, cmd) ==
  LET c == cmd.chat IN
  CASE cmd.do = "track" /\ c \notin DOMAIN r.targets ->
         [r EXCEPT !.targets = [d \in DOMAIN @ \cup {c} |->
                                  IF d = c THEN cmd.since ELSE @[d]],
                   !.pending_hydration = Append(@, c),
                   !.resubscribe = TRUE,
                   !.inner[c] = ids[c]]
    [] cmd.do = "untrack" /\ c \in DOMAIN r.targets ->
         [r EXCEPT !.targets = [d \in DOMAIN @ \ {c} |-> @[d]],
                   !.resubscribe = TRUE,
                   !.inner[c] = {},
                   !.tokens[c] = Burst]
    [] OTHER -> r

\* Everything in the channel is applied before the one subscription.
apply_chat_router_cmds ==
  LET after[i \in 0 .. Len(cmds)] ==
        IF i = 0
        THEN [targets |-> targets, pending_hydration |-> <<>>, resubscribe |-> FALSE,
              inner |-> inner, tokens |-> tokens]
        ELSE apply_chat_router_cmd(after[i - 1], cmds[i])
  IN  after[Len(cmds)]

ApplyCmds ==
  /\ pc = "idle" /\ cmds # <<>>
  /\ LET r == apply_chat_router_cmds
     IN  /\ targets' = r.targets
         /\ pending_hydration' = r.pending_hydration
         /\ inner' = r.inner
         /\ tokens' = r.tokens
         /\ pc' = IF r.resubscribe THEN "subscribe" ELSE "idle"
         /\ lost' = {m \in lost : m.chat \notin Range(r.pending_hydration)}
  /\ cmds' = <<>>
  /\ UNCHANGED <<world, open, listed, live, notes, outer, updates, screen, deaf, faults>>

AfterSubscribe == pc' = IF pending_hydration = <<>> THEN "idle" ELSE "hydrate"

\* resubscribe: the new subscription replaces the old one once it stands.
Subscribe ==
  /\ pc = "subscribe"
  /\ live' = DOMAIN targets
  /\ deaf' = {}
  /\ AfterSubscribe
  /\ UNCHANGED <<world, open, listed, cmds, targets, pending_hydration, notes, outer, inner,
                 tokens, updates, screen, lost, faults>>

\* Three attempts fail: the old subscription stays, and the histories are fetched.
SubscribeFails ==
  /\ pc = "subscribe" /\ DOMAIN targets # {} /\ Failures(1)
  /\ deaf' = DOMAIN targets \ live
  /\ AfterSubscribe
  /\ UNCHANGED <<world, open, listed, cmds, targets, pending_hydration, live, notes,
                 outer, inner, tokens, updates, screen, lost>>

\* try_emit_chat_update: a full channel drops the messages.
Emit(c, msgs) ==
  IF msgs # <<>> /\ Len(updates) < QueueCap
  THEN updates' = Append(updates, [chat |-> c, msgs |-> msgs])
  ELSE UNCHANGED updates

Dropped(msgs) == IF Len(updates) < QueueCap THEN {} ELSE Range(msgs)

Fresh(m) == m.id \notin inner[m.chat]
AfterCursor(m) == time(m) > targets[m.chat]
WithinCursor(m) == time(m) >= targets[m.chat]

\* The messages oldest first, in any order within a second.
ByTime(found) ==
  {s \in [1 .. Cardinality(found) -> found] :
     IsInjective(s) /\ \A i, j \in DOMAIN s : i < j => time(s[i]) <= time(s[j])}

\* hydrate_history: one of the two envelopes may fail to be fetched, or both.
Hydrate ==
  /\ pc = "hydrate"
  /\ LET c == Head(pending_hydration)
         held == {m \in relay : m.chat = c}
     IN  IF c \notin DOMAIN targets
         THEN UNCHANGED <<inner, updates, lost, faults>>
         ELSE \E fetched \in SUBSET Envelopes :
           LET found == {m \in held : m.envelope \in fetched /\ unwrap_ok(m)
                                        /\ WithinCursor(m) /\ Fresh(m)}
           IN  \E msgs \in ByTime(found) :
             /\ Failures(Cardinality(Envelopes \ fetched))
             /\ inner' = [inner EXCEPT ![c] = @ \cup {m.id : m \in found}]
             /\ Emit(c, msgs)
             /\ Lose(Dropped(msgs) \cup {m \in held : m.envelope \notin fetched})
  /\ pending_hydration' = Tail(pending_hydration)
  /\ pc' = IF pending_hydration' = <<>> THEN "idle" ELSE "hydrate"
  /\ UNCHANGED <<world, open, listed, cmds, targets, live, notes, outer, tokens, screen,
                 deaf>>

\* The next event of the subscription: m is the message, and Known, Limited and
\* Readable are the checks in the order the loop makes them.
Note == Head(notes)
Routed   == Note.chat \in DOMAIN targets
Known    == \E i \in DOMAIN outer : outer[i] = Note.id
Limited  == tokens[Note.chat] = 0
Readable == unwrap_ok(Note) /\ Fresh(Note)

\* OuterIdLru::insert
Remembered ==
  LET longer == Append(outer, Note.id)
  IN  IF Len(longer) > OuterCap THEN Tail(longer) ELSE longer

Listen ==
  /\ pc = "idle" /\ notes # <<>>
  /\ notes' = Tail(notes)
  /\ UNCHANGED <<world, open, listed, cmds, pc, targets, pending_hydration, live,
                 screen, deaf, faults>>

IgnoreNote ==
  /\ Listen
  /\ ~Routed \/ Known
  /\ UNCHANGED <<outer, inner, tokens, updates, lost>>

\* The rate limit: the event is remembered, and never looked at again.
TurnAway ==
  /\ Listen
  /\ Routed /\ ~Known /\ Limited
  /\ outer' = Remembered
  /\ Lose({Note})
  /\ UNCHANGED <<inner, tokens, updates>>

ReadNote ==
  /\ Listen
  /\ Routed /\ ~Known /\ ~Limited
  /\ outer' = Remembered
  /\ tokens' = [tokens EXCEPT ![Note.chat] = @ - 1]
  /\ IF Readable
     THEN /\ inner' = [inner EXCEPT ![Note.chat] = @ \cup {Note.id}]
          /\ Emit(Note.chat, <<Note>>)
          /\ Lose(Dropped(<<Note>>))
     ELSE UNCHANGED <<inner, updates, lost>>
-----------------------------------------------------------------------------
\* The interface takes an update.  The handlers work on a: the lines shown, the
\* file, the recorded ids, the newest time taken in and the messages not kept.

Taken(a, m)   == [a EXCEPT !.top = Max2(@, time(m))]
Noted(a, m, unnoted) == IF m \in unnoted THEN a ELSE [a EXCEPT !.ids = @ \cup {m.id}]

Echo(m) == m.by = "self"

\* Where the shown lines have a placeholder of the attachment, if they do.
Placeholders(lines, line) ==
  {i \in DOMAIN lines : lines[i].by = line.by /\ lines[i].ts = line.ts
                        /\ legacy_placeholder_matches_filename(lines[i], line)}

never_duplicate(lines, line) == FALSE
is_duplicate(lines, line) == \E i \in DOMAIN lines : SameMessage(lines[i], line)

\* rewrite_order_chat_messages writes the file from what is shown.
Upgraded(a, line) ==
  LET i == Min(Placeholders(a.mem, line))
      shown == [a.mem EXCEPT ![i] = line]
  IN  [a EXCEPT !.mem = shown, !.file = [j \in DOMAIN shown |-> FileForm(shown[j])]]

Shown(a, line) == [a EXCEPT !.file = Saved(@, line), !.mem = Append(@, line)]

\* The signers of a dispute are known from its row in the list; those of an order come
\* with the update, whether the order is still there or not.
SignerUnknown(m) == role = "admin" /\ m.chat \notin listed

apply_message(a, m, unsaved, unnoted) ==
  LET line == Line(m)
      old == Placeholders(a.mem, line)
  IN  IF Echo(m) \/ m.id \in a.ids THEN Taken(a, m)
      ELSE IF SignerUnknown(m) THEN Taken([a EXCEPT !.lost = @ \cup {m}], m)
      ELSE IF old = {} /\ is_duplicate(a.mem, line) THEN Noted(Taken(a, m), m, unnoted)
      ELSE IF m \in unsaved THEN [a EXCEPT !.lost = @ \cup {m}]
      ELSE Noted(Taken(IF old # {} THEN Upgraded(a, line) ELSE Shown(a, line), m), m, unnoted)

\* The messages of an update are applied one after the other.
Applied(start, msgs, unsaved, unnoted) ==
  LET after[i \in 0 .. Len(msgs)] ==
        IF i = 0 THEN start ELSE apply_message(after[i - 1], msgs[i], unsaved, unnoted)
  IN  after[Len(msgs)]

\* apply_user_order_chat_updates, apply_admin_chat_updates: writes of the
\* transcript may fail, and so may the record of an id.
ApplyUpdate ==
  /\ updates # <<>>
  /\ LET c == Head(updates).chat
         msgs == Head(updates).msgs
     IN  \E unsaved \in SUBSET Range(msgs) : \E unnoted \in SUBSET Range(msgs) :
           LET a == Applied([mem |-> mem[c], file |-> file[c], ids |-> ids[c],
                             top |-> seen[c], lost |-> lost], msgs, unsaved, unnoted)
               cursor == Max2(clamp_chat_since_cursor_now(seen[c]),
                              clamp_chat_since_cursor_now(a.top))
           IN  /\ Failures(Cardinality(unsaved) + Cardinality(unnoted))
               /\ mem' = [mem EXCEPT ![c] = a.mem]
               /\ file' = [file EXCEPT ![c] = a.file]
               /\ ids' = [ids EXCEPT ![c] = a.ids]
               /\ seen' = [seen EXCEPT ![c] = cursor]
               /\ rowSeen' = IF role = "admin" THEN [rowSeen EXCEPT ![c] = cursor] ELSE rowSeen
               /\ lost' = a.lost
  /\ updates' = Tail(updates)
  /\ UNCHANGED <<world, open, listed, cmds, router, deaf>>
-----------------------------------------------------------------------------
ChatNext ==
  \/ Restart \/ Respawn \/ Tick \/ Skip
  \/ \E c \in Chats : Open(c) \/ List(c) \/ Again(c) \/ CloseChat(c) \/ Forget(c)
  \/ \E m \in Messages : Publish(m) \/ Redeliver(m) \/ Send(m)
  \/ ApplyCmds \/ Subscribe \/ SubscribeFails \/ Hydrate
  \/ IgnoreNote \/ TurnAway \/ ReadNote
  \/ ApplyUpdate

ChatSpec == ChatInit /\ [][ChatNext]_chatVars
-----------------------------------------------------------------------------
\* The state is a state of the program.
Line0(l) == l.by \in Signers /\ l.ts \in Nat /\ l.att \in BOOLEAN /\ l.wrapped \in BOOLEAN

\* Once the router and the interface have nothing left to do, every message of
\* the other party that the relays hold and that is not older than the cursor the
\* chat was tracked from stands in the transcript, except those a counted failure
\* took: nothing falls between the subscription and the history, or between two
\* respawns, restarts and redeliveries.  (chat_listener.rs:571-681)
Quiet == cmds = <<>> /\ pc = "idle" /\ notes = <<>> /\ updates = <<>>
InFile(m) ==
  \E i \in DOMAIN file[m.chat] : SameMessage(file[m.chat][i], FileForm(Line(m)))

ChatLosesNothing ==
  Quiet => \A m \in relay \ lost :
    m.by = "peer" /\ m.chat \in DOMAIN targets /\ m.ts >= targets[m.chat] => InFile(m)

\* What the interface shows of the other party is what the file has, each line
\* once: a restart neither takes a line away nor shows it twice.  Long texts are
\* left out: the file keeps them wrapped.  (startup.rs:476-640, 640-843)
Times(lines, line) == Cardinality({i \in DOMAIN lines : lines[i] = line})
ScreenIsTranscript ==
  \A c \in OpenChats : \A m \in {n \in relay : n.by = "peer" /\ n.chat = c} :
    m.text \notin LongTexts =>
      /\ Times(mem[c], Line(m)) = Times(file[c], Line(m))
      /\ Times(mem[c], Line(m)) <= 1

\* The files are transcripts as ChatTranscript promises them; an admin's own
\* lines are shown and sent whether they could be saved or not, and what still comes
\* to a chat the interface has forgotten may be written once more.
\* (startup.rs:481-638, order_ch_mng.rs:77-86)
Written(m) == IF m.by = "self" THEN stamp[m.id] > 0 ELSE m \in relay

\* They also suppose that no two messages of ours have the same words and second:
\* the file keeps such two once or twice, as what stands between them decides.
OwnLinesDiffer ==
  \A m, n \in {o \in Messages : o.by = "self" /\ Written(o)} :
    m.chat = n.chat /\ m.text = n.text /\ time(m) = time(n) => m = n

WrittenBy(signers) ==
  [c \in Chats |-> {FileForm(Line(m)) :
                      m \in {n \in Messages : n.chat = c /\ n.by \in signers /\ Written(n)}}]
Repeatable(line) == line.wrapped
Transcript ==
  INSTANCE ChatTranscript WITH
    kept <- file,
    written <- WrittenBy({"self", "peer"}),
    late <- WrittenBy(IF role = "admin" THEN {"self"} ELSE {}),
    forgotten <- {c \in Chats : open[c] = "forgotten"}
KeepsTranscript == Transcript!Spec
=============================================================================
