--------------------------- MODULE AdminDisputes ---------------------------
(***************************************************************************)
(* Disputes as a solver sees them.  Mostro decides a dispute once, at the  *)
(* solver's request or without asking (cooperative cancel, release), and   *)
(* publishes a replaceable event.  The solver's program keeps four views   *)
(* of it: the row in admin_disputes, the shared vector of the disputes     *)
(* scheduler, the In Progress list of the main loop, and the two party     *)
(* chats the chat router listens to.                                       *)
(*                                                                         *)
(* Writers of the rows: the take and finalize tasks (one per key press,    *)
(* several may run), and the disputes scheduler, which reconciles rows     *)
(* with snapshots, live events and single requests.  Each database call,   *)
(* relay request and wait for an answer is an await where others run.      *)
(***************************************************************************)
EXTENDS Integers, Sequences, SequencesExt, FiniteSets

CONSTANTS
  NumDisputes,  \* disputes 1 .. NumDisputes, sorted as the database sorts their ids
  Unasked,      \* the ways a dispute ends here without this solver
  MaxJobs,      \* bound: take and finalize tasks the solver starts
  MaxPerTick,   \* TARGETED_RELAY_RECONCILE_MAX_PER_TICK
  MaxFaults     \* bound: reloads of the session and crashes of the program

Disputes == 1 .. NumDisputes
Jobs     == 1 .. MaxJobs

Outcomes == {"settled", "seller-refunded", "released"}

ASSUME DisputesAssumption == NumDisputes \in Nat \ {0} /\ MaxJobs \in Nat
ASSUME UnaskedAssumption  == Unasked \subseteq Outcomes
ASSUME TickAssumption     == MaxPerTick \in Nat \ {0}
ASSUME FaultsAssumption   == MaxFaults \in Nat

VARIABLES
  mostro,   \* status of each dispute at Mostro, which its newest event shows
  listed,   \* disputes whose newest event a list request still reaches
  notes,    \* <<dispute, status>> live events still on the way, in any order
  inbox,    \* jobs whose request Mostro has yet to answer
  replies,  \* <<job, action>> answers on the way to the admin key
  job,      \* kind, dispute and place of each take or finalize task
  rows,     \* status column of admin_disputes, "none" without a row
  book,     \* the shared vector: the status it shows of a dispute, "none" if absent
  mem,      \* app.admin_disputes_in_progress
  news,     \* "taken" and "finalized" results the main loop has yet to apply
  chats,    \* disputes whose party chats the chat router listens to
  phase,    \* where the disputes scheduler is
  snap,     \* <<dispute, status>> events it is working from
  todo,     \* those whose row it has still to reconcile
  queue,    \* disputes left to ask for in this tick
  resolved, \* terminal events it got by asking in this tick
  cursor,   \* targeted_dispute_reconcile_cursor
  reloads, crashes

daemon == <<mostro, listed, notes>>
mail   == <<inbox, replies>>
plan   == <<queue, resolved, cursor>>
task   == <<phase, snap, todo, plan>>
faults == <<reloads, crashes>>
vars   == <<daemon, mail, job, rows, book, mem, news, chats, task, faults>>

Statuses == {"initiated", "in-progress"} \cup Outcomes
Kinds    == {"take", "settle", "cancel"}
Answers  == {"took", "settled", "canceled", "coop", "cant"}
Places   == {"new", "read", "asked", "check", "save", "guard", "update", "track",
             "write-settled", "write-refunded", "done"}
Phases   == {"idle", "snap", "list", "target", "live"}

is_terminal_status(s) == s \in Outcomes

\* Mutated: an event that tells the dispute is taken closes the row, too.
Taken(events) == {e \in events : e[2] # "initiated"}

\* What reconcile_one_admin_dispute_if_terminal looks at.
Terminal(events) == {e \in events : is_terminal_status(e[2])}

\* The relays answer a list request with the newest events only.
Newest == {<<d, mostro[d]>> : d \in listed}

-----------------------------------------------------------------------------
(* Mostro.                                                                 *)

Publishes(d, s) ==
  /\ mostro'  = [mostro EXCEPT ![d] = s]
  /\ listed'  = listed \cup {d}
  /\ notes'   = notes \cup {<<d, s>>}

\* The parties cancel together, the seller releases, or another solver decides.
CloseUnasked(d, s) ==
  /\ ~is_terminal_status(mostro[d])
  /\ Publishes(d, s)
  /\ UNCHANGED <<mail, job, rows, book, mem, news, chats, task, faults>>

\* MOSTRO_LIST_FETCH_EVENT_LIMIT newer events of other disputes.
CrowdOut(d) ==
  /\ d \in listed /\ listed' = listed \ {d}
  /\ UNCHANGED <<mostro, notes, mail, job, rows, book, mem, news, chats, task, faults>>

Answer(j, action) ==
  /\ j \in inbox /\ inbox' = inbox \ {j}
  /\ replies' = replies \cup {<<j, action>>}
  /\ UNCHANGED <<job, rows, book, mem, news, chats, task, faults>>

GrantTake(j) ==
  /\ job[j].kind = "take" /\ Answer(j, "took")
  /\ LET d == job[j].of
     IN  \/ mostro[d] = "initiated" /\ Publishes(d, "in-progress")
         \/ mostro[d] = "in-progress" /\ UNCHANGED daemon

Outcome(kind) == IF kind = "settle" THEN "settled" ELSE "seller-refunded"

GrantFinalize(j) ==
  LET k == job[j].kind IN
  /\ k # "take" /\ Answer(j, IF k = "settle" THEN "settled" ELSE "canceled")
  /\ mostro[job[j].of] = "in-progress" /\ Publishes(job[j].of, Outcome(k))

\* The order was cooperatively canceled before the request came.
AlreadyCanceled(j) ==
  /\ job[j].kind # "take" /\ mostro[job[j].of] = "seller-refunded"
  /\ Answer(j, "coop") /\ UNCHANGED daemon

Refuse(j) == Answer(j, "cant") /\ UNCHANGED daemon

-----------------------------------------------------------------------------
(* execute_take_dispute and execute_finalize_dispute, one task per press.  *)

At(j, place) == job' = [job EXCEPT ![j].at = place]

\* The solver takes a dispute the Pending tab lists ...
StartTake(j, d) ==
  /\ job[j].at = "new" /\ \A i \in Jobs : i < j => job[i].at # "new"
  /\ book[d] = "initiated"
  /\ job' = [job EXCEPT ![j] = [kind |-> "take", of |-> d, at |-> "asked"]]
  /\ inbox' = inbox \cup {j}
  /\ UNCHANGED <<daemon, replies, rows, book, mem, news, chats, task, faults>>

\* ... or decides one the In Progress list shows as open.
StartFinalize(j, d, kind) ==
  /\ job[j].at = "new" /\ \A i \in Jobs : i < j => job[i].at # "new"
  /\ mem[d] # "none" /\ ~is_terminal_status(mem[d])
  /\ job' = [job EXCEPT ![j] = [kind |-> kind, of |-> d, at |-> "read"]]
  /\ UNCHANGED <<daemon, mail, rows, book, mem, news, chats, task, faults>>

\* A row that is missing or finalized stops it; else the request is sent.
ReadForFinalize(j) ==
  /\ job[j].at = "read"
  /\ IF rows[job[j].of] = "none" \/ is_terminal_status(rows[job[j].of])
     THEN At(j, "done") /\ UNCHANGED inbox
     ELSE At(j, "asked") /\ inbox' = inbox \cup {j}
  /\ UNCHANGED <<daemon, replies, rows, book, mem, news, chats, task, faults>>

\* A take asks without a request id: it believes every answer that its dispute
\* was taken, also the one to another take of it.
AcceptsTook(j, reply) == reply[2] = "took" /\ job[reply[1]].of = job[j].of

\* Where a waiting task goes with an answer: every waiter on the admin key gets it.
\* A finalize asks with a request id and fails on an answer to any other.
AfterAnswer(j, reply) ==
  LET k == job[j].kind IN
  CASE k = "take" /\ AcceptsTook(j, reply) -> "check"
    [] k = "settle" /\ reply = <<j, "settled">>  -> "write-settled"
    [] k = "cancel" /\ reply = <<j, "canceled">> -> "write-refunded"
    [] k # "take" /\ reply = <<j, "coop">>       -> "write-refunded"
    [] OTHER -> "done"

Deliver(reply) ==
  /\ reply \in replies /\ replies' = replies \ {reply}
  /\ job' = [j \in Jobs |-> IF job[j].at = "asked"
                            THEN [job[j] EXCEPT !.at = AfterAnswer(j, reply)]
                            ELSE job[j]]
  /\ UNCHANGED <<daemon, inbox, rows, book, mem, news, chats, task, faults>>

\* FETCH_EVENTS_TIMEOUT: the request may still be answered, to nobody.
TimeOut(j) ==
  /\ job[j].at = "asked" /\ At(j, "done")
  /\ UNCHANGED <<daemon, mail, rows, book, mem, news, chats, task, faults>>

\* try_get_by_id, and then the order's currency is fetched.
CheckRow(j) ==
  /\ job[j].at = "check"
  /\ At(j, IF is_terminal_status(rows[job[j].of]) THEN "done" ELSE "save")
  /\ UNCHANGED <<daemon, mail, rows, book, mem, news, chats, task, faults>>

\* AdminDispute::new: insert, and look closer if there is a row already.
InsertRow(j) ==
  /\ job[j].at = "save"
  /\ IF rows[job[j].of] = "none"
     THEN rows' = [rows EXCEPT ![job[j].of] = "in-progress"] /\ At(j, "track")
     ELSE At(j, "guard") /\ UNCHANGED rows
  /\ UNCHANGED <<daemon, mail, book, mem, news, chats, task, faults>>

GuardUpdate(j) ==
  /\ job[j].at = "guard"
  /\ At(j, IF is_terminal_status(rows[job[j].of]) THEN "done" ELSE "update")
  /\ UNCHANGED <<daemon, mail, rows, book, mem, news, chats, task, faults>>

\* Overwrites the row whatever it says by now.
UpdateRow(j) ==
  /\ job[j].at = "update"
  /\ rows' = [rows EXCEPT ![job[j].of] = "in-progress"] /\ At(j, "track")
  /\ UNCHANGED <<daemon, mail, book, mem, news, chats, task, faults>>

TrackChats(j) ==
  /\ job[j].at = "track" /\ At(j, "done")
  /\ chats' = chats \cup {job[j].of} /\ news' = TRUE
  /\ UNCHANGED <<daemon, mail, rows, book, mem, task, faults>>

\* Mutated: a cooperative cancel answered to "settle" is booked as settled.
ack_by_request(j) == Outcome(job[j].kind)

FinalStatus(j) == IF job[j].at = "write-settled" THEN "settled" ELSE "seller-refunded"

\* set_status_settled or set_status_seller_refunded; the chats are dropped.
WriteOutcome(j) ==
  /\ job[j].at \in {"write-settled", "write-refunded"}
  /\ rows' = [rows EXCEPT ![job[j].of] = FinalStatus(j)]
  /\ chats' = chats \ {job[j].of} /\ news' = TRUE /\ At(j, "done")
  /\ UNCHANGED <<daemon, mail, book, mem, task, faults>>

-----------------------------------------------------------------------------
(* The main loop.                                                          *)

\* A "taken" or "finalized" result makes it load the list again.
ApplyNews ==
  /\ news /\ news' = FALSE /\ mem' = rows
  /\ UNCHANGED <<daemon, mail, job, rows, book, chats, task, faults>>

\* Open disputes of the list that the shared vector shows as ended.
Closed == {d \in Disputes : /\ mem[d] # "none" /\ ~is_terminal_status(mem[d])
                            /\ is_terminal_status(book[d])}

apply_terminal_relay_statuses_to_admin_disputes ==
  /\ Closed # {}
  /\ mem' = [d \in Disputes |-> IF d \in Closed THEN book[d] ELSE mem[d]]
  /\ chats' = chats \ Closed
  /\ UNCHANGED <<daemon, mail, job, rows, book, news, task, faults>>

-----------------------------------------------------------------------------
(* The disputes scheduler.                                                 *)

Idle == phase = "idle" /\ todo = {}

\* One UPDATE that leaves finalized rows alone; the chats go with the change.
reconcile_one_admin_dispute_if_terminal(e) ==
  /\ e \in todo /\ todo' = todo \ {e}
  /\ IF rows[e[1]] # "none" /\ ~is_terminal_status(rows[e[1]])
     THEN /\ rows' = [rows EXCEPT ![e[1]] = e[2]]
          /\ chats' = chats \ {e[1]}
     ELSE UNCHANGED <<rows, chats>>
  /\ UNCHANGED <<daemon, mail, job, book, mem, news, phase, snap, plan, faults>>

FetchAnswered ==
  /\ Idle
  /\ phase' = "snap" /\ snap' = Newest /\ todo' = Terminal(Newest)
  /\ UNCHANGED <<daemon, mail, job, rows, book, mem, news, chats, plan, faults>>

FetchFailed ==
  /\ Idle
  /\ phase' = "list"
  /\ UNCHANGED <<daemon, mail, job, rows, book, mem, news, chats, snap, todo, plan, faults>>

Shown(d, events) ==
  IF \E e \in events : e[1] = d THEN (CHOOSE e \in events : e[1] = d)[2] ELSE "none"

replaced == [d \in Disputes |-> Shown(d, snap)]

\* The vector is cleared and filled with the snapshot.
FillBook ==
  /\ phase = "snap" /\ todo = {}
  /\ book' = replaced
  /\ phase' = "list"
  /\ UNCHANGED <<daemon, mail, job, rows, mem, news, chats, snap, todo, plan, faults>>

Seen == {e[1] : e \in snap}

\* Mutated: rows are left to the snapshots.
ask_for_none == <<>>

\* Rows in progress the snapshot did not reach, in the order of their ids.
list_in_progress_dispute_ids ==
  SetToSortSeq({d \in Disputes : rows[d] = "in-progress" /\ d \notin Seen},
               LAMBDA a, b : a < b)

MinOf(a, b) == IF a <= b THEN a ELSE b

\* The new cursor is stored when the tick ends; nothing reads it before.
ListRows ==
  /\ phase = "list"
  /\ LET ids  == list_in_progress_dispute_ids
         take == MinOf(MaxPerTick, Len(ids))
     IN  IF ids = <<>> THEN phase' = "idle" /\ UNCHANGED <<queue, cursor>>
         ELSE /\ phase' = "target"
              /\ queue' = [i \in 1 .. take |-> ids[1 + ((cursor + i - 1) % Len(ids))]]
              /\ cursor' = (cursor + take) % Len(ids)
  /\ snap' = {}
  /\ UNCHANGED <<daemon, mail, job, rows, book, mem, news, chats, todo, resolved, faults>>

AskAnswered(d) ==
  /\ phase = "target" /\ todo = {} /\ queue # <<>> /\ Head(queue) = d
  /\ queue' = Tail(queue)
  /\ todo' = Terminal({<<d, mostro[d]>>})
  /\ resolved' = resolved \cup Terminal({<<d, mostro[d]>>})
  /\ UNCHANGED <<daemon, mail, job, rows, book, mem, news, chats, phase, snap, cursor, faults>>

AskFailed ==
  /\ phase = "target" /\ todo = {} /\ queue # <<>>
  /\ queue' = Tail(queue)
  /\ UNCHANGED <<daemon, mail, job, rows, book, mem, news, chats, phase, snap, todo,
                 resolved, cursor, faults>>

book_with_resolved ==
  [d \in Disputes |-> IF Shown(d, resolved) = "none" THEN book[d] ELSE Shown(d, resolved)]

EndTick ==
  /\ phase = "target" /\ todo = {} /\ queue = <<>>
  /\ book' = book_with_resolved
  /\ phase' = "idle" /\ resolved' = {}
  /\ UNCHANGED <<daemon, mail, job, rows, mem, news, chats, snap, todo, queue, cursor, faults>>

Hear(e) ==
  /\ Idle /\ e \in notes /\ notes' = notes \ {e}
  /\ phase' = "live" /\ snap' = {e} /\ todo' = Terminal({e})
  /\ UNCHANGED <<mostro, listed, mail, job, rows, book, mem, news, chats, plan, faults>>

\* apply_live_dispute_update: replaces what was shown, newer or not.
ApplyLive ==
  /\ phase = "live" /\ todo = {}
  /\ book' = [d \in Disputes |-> IF d \in Seen THEN Shown(d, snap) ELSE book[d]]
  /\ phase' = "idle" /\ snap' = {}
  /\ UNCHANGED <<daemon, mail, job, rows, mem, news, chats, todo, plan, faults>>

-----------------------------------------------------------------------------
(* Reloads and crashes.                                                    *)

SchedulerStarts ==
  /\ phase' = "idle" /\ snap' = {} /\ todo' = {}
  /\ queue' = <<>> /\ resolved' = {} /\ cursor' = 0
  /\ notes' = {} /\ UNCHANGED <<mostro, listed>>

\* track_startup_chats: the disputes a list shows in progress.
Open(list) == {d \in Disputes : list[d] = "in-progress"}

\* The scheduler and the chat router are aborted and spawned again; the list
\* and the shared vector live on, and so do the tasks.
Reload ==
  /\ reloads + crashes < MaxFaults /\ reloads' = reloads + 1
  /\ SchedulerStarts /\ chats' = Open(mem)
  /\ UNCHANGED <<mail, job, rows, book, mem, news, crashes>>

\* Requests already sent are answered to nobody.
Crash ==
  /\ reloads + crashes < MaxFaults /\ crashes' = crashes + 1
  /\ SchedulerStarts
  /\ job' = [j \in Jobs |-> IF job[j].at = "new" THEN job[j] ELSE [job[j] EXCEPT !.at = "done"]]
  /\ replies' = {} /\ news' = FALSE
  /\ book' = [d \in Disputes |-> "none"]
  /\ mem' = rows /\ chats' = Open(rows)
  /\ UNCHANGED <<inbox, rows, reloads>>

Init ==
  /\ mostro = [d \in Disputes |-> "initiated"]
  /\ listed = Disputes
  /\ notes = {} /\ inbox = {} /\ replies = {}
  /\ job = [j \in Jobs |-> [kind |-> "take", of |-> 1, at |-> "new"]]
  /\ rows = [d \in Disputes |-> "none"] /\ book = rows /\ mem = rows
  /\ news = FALSE /\ chats = {}
  /\ phase = "idle" /\ snap = {} /\ todo = {}
  /\ queue = <<>> /\ resolved = {} /\ cursor = 0
  /\ reloads = 0 /\ crashes = 0

MostroNext ==
  \/ \E d \in Disputes : CrowdOut(d) \/ \E s \in Unasked : CloseUnasked(d, s)
  \/ \E j \in Jobs : \/ GrantTake(j) \/ GrantFinalize(j) \/ AlreadyCanceled(j) \/ Refuse(j)

SolverNext ==
  \E j \in Jobs, d \in Disputes :
    \/ StartTake(j, d)
    \/ \E kind \in {"settle", "cancel"} : StartFinalize(j, d, kind)

JobNext ==
  \/ \E j \in Jobs :
       \/ ReadForFinalize(j) \/ TimeOut(j) \/ CheckRow(j) \/ InsertRow(j)
       \/ GuardUpdate(j) \/ UpdateRow(j) \/ TrackChats(j) \/ WriteOutcome(j)
  \/ \E r \in replies : Deliver(r)

MainNext == ApplyNews \/ apply_terminal_relay_statuses_to_admin_disputes

SchedulerNext ==
  \/ FetchAnswered \/ FetchFailed \/ FillBook \/ ListRows \/ AskFailed
  \/ EndTick \/ ApplyLive
  \/ \E d \in Disputes : AskAnswered(d)
  \/ \E e \in notes : Hear(e)
  \/ \E e \in todo : reconcile_one_admin_dispute_if_terminal(e)

Next == MostroNext \/ SolverNext \/ JobNext \/ MainNext \/ SchedulerNext \/ Reload \/ Crash

Spec == Init /\ [][Next]_vars

\* The tasks and the main loop keep running; a relay that is asked over and
\* over answers at some time.
Fairness ==
  /\ WF_vars(JobNext) /\ WF_vars(MainNext) /\ WF_vars(SchedulerNext)
  /\ SF_vars(FetchAnswered)
  /\ \A d \in Disputes : SF_vars(AskAnswered(d))

FairSpec == Spec /\ Fairness

-----------------------------------------------------------------------------

Events == Disputes \X Statuses

\* A dispute the solver's program holds for ended, in its row or in its list,
\* ended at Mostro, and ended that way: whoever closed it, and whichever request
\* an answer on the one admin key was for (a take may go on with another's).
EndedAsDecided ==
  \A d \in Disputes :
    /\ is_terminal_status(rows[d]) => rows[d] = mostro[d]
    /\ is_terminal_status(mem[d]) => mem[d] = mostro[d]

\* Disputes the solver works on, once the take that saved the row has handed the
\* chats over: another task's result may show the row before.
Taking(d) == \E j \in Jobs : job[j].at = "track" /\ job[j].of = d
WorkedOn ==
  {d \in Disputes : rows[d] = "in-progress" /\ mostro[d] = "in-progress" /\ ~Taking(d)}

\* A dispute the solver works on has its party chats, in every session that
\* was not reloaded: neither a lost answer nor a late event nor a second take, which
\* may go on with the first one's answer, nor a crash takes them away.
OpenDisputeHasChats == reloads = 0 => WorkedOn \subseteq chats

\* Every row of a dispute that has ended is finalized in the end, for good:
\* also when the answer was lost, the live event was missed, or a second take, on an
\* answer of its own or the first one's, wrote "in-progress" over an outcome it had
\* not seen.
RowsClose ==
  <>[](\A d \in Disputes :
         rows[d] # "none" /\ is_terminal_status(mostro[d]) => rows[d] = mostro[d])

\* The list the solver sees follows, for the disputes a snapshot reaches: the
\* program may miss the end of another one, shown between two snapshots.
ListCloses ==
  <>[](\A e \in Terminal(Newest) : mem[e[1]] # "none" => mem[e[1]] = e[2])

\* Whatever was lost, missed or written over, rows and list end as Mostro
\* decided (the scheduler's snapshots, live events and targeted requests).
DisputesClose == RowsClose /\ ListCloses
=============================================================================
