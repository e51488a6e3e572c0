------------------------ MODULE AdminDisputesProofs ------------------------
(***************************************************************************)
(* Proof that whatever the solver's program holds for ended ended at       *)
(* Mostro, and that way, and that an open dispute keeps its party chats:   *)
(* for any number of disputes, tasks, reloads and crashes.                 *)
(*                                                                         *)
(* The argument: Mostro decides a dispute once, so a terminal status that  *)
(* is on the way (an event, an answer, a task about to write it) stays     *)
(* true until it is used, and no writer makes one up.                      *)
(***************************************************************************)
EXTENDS AdminDisputes, TLAPS

Views == [Disputes -> Statuses \cup {"none"}]

\* A view of the disputes that shows no end Mostro did not decide.
Truthful(view) ==
  \A d \in Disputes : is_terminal_status(view[d]) => view[d] = mostro[d]

\* Events that tell of no end Mostro did not decide.
Told(events) ==
  \A e \in events : is_terminal_status(e[2]) => e[2] = mostro[e[1]]

DisputesTyped ==
  /\ mostro \in [Disputes -> Statuses] /\ listed \subseteq Disputes
  /\ rows \in Views /\ book \in Views /\ mem \in Views
  /\ job \in [Jobs -> [kind : Kinds, of : Disputes, at : Places]]
  /\ inbox \subseteq Jobs /\ replies \subseteq Jobs \X Answers
  /\ notes \subseteq Disputes \X Statuses /\ snap \subseteq Disputes \X Statuses
  /\ todo \subseteq Disputes \X Statuses /\ resolved \subseteq Disputes \X Statuses

ViewsTruthful == Truthful(rows) /\ Truthful(book) /\ Truthful(mem)
EventsTold    == Told(notes) /\ Told(snap) /\ Told(todo) /\ Told(resolved)

\* What an answer says of the dispute it is about.
AnswerTrue(j, action) ==
  /\ action = "settled" => mostro[job[j].of] = "settled"
  /\ action \in {"canceled", "coop"} => mostro[job[j].of] = "seller-refunded"

\* A request that was sent stays about its dispute.
RequestsTrue ==
  /\ \A j \in inbox : job[j].at # "new"
  /\ \A r \in replies : job[r[1]].at # "new" /\ AnswerTrue(r[1], r[2])

\* A task that is about to write an outcome.
WritersTrue ==
  \A j \in Jobs :
    /\ job[j].at = "write-settled"  => mostro[job[j].of] = "settled"
    /\ job[j].at = "write-refunded" => mostro[job[j].of] = "seller-refunded"

DisputesInv ==
  DisputesTyped /\ ViewsTruthful /\ EventsTold /\ RequestsTrue /\ WritersTrue

\* Decisions of Mostro are final.
EndsKept ==
  \A d \in Disputes : is_terminal_status(mostro[d]) => mostro'[d] = mostro[d]

-----------------------------------------------------------------------------
LEMMA DisputesInvInit == Init => DisputesInv
  <1> SUFFICES ASSUME Init PROVE DisputesInv
    OBVIOUS
  <1>1. 1 \in Disputes
    BY DisputesAssumption DEF Disputes
  <1>2. DisputesTyped
    BY <1>1 DEF Init, DisputesTyped, Views, Statuses, Kinds, Places
  <1>3. ViewsTruthful
    BY DEF Init, ViewsTruthful, Truthful, is_terminal_status, Outcomes
  <1>4. EventsTold /\ RequestsTrue /\ WritersTrue
    BY DEF Init, EventsTold, Told, RequestsTrue, WritersTrue
  <1> QED
    BY <1>2, <1>3, <1>4 DEF DisputesInv

\* What is true of an end stays true, whatever Mostro decides next.
LEMMA StaysTrue ==
  ASSUME DisputesTyped, EndsKept
  PROVE  /\ \A v \in Views : Truthful(v) =>
              \A d \in Disputes : is_terminal_status(v[d]) => v[d] = mostro'[d]
         /\ \A s \in SUBSET (Disputes \X Statuses) : Told(s) =>
              \A e \in s : is_terminal_status(e[2]) => e[2] = mostro'[e[1]]
         /\ \A d \in Disputes : mostro[d] = "settled" => mostro'[d] = "settled"
         /\ \A d \in Disputes :
              mostro[d] = "seller-refunded" => mostro'[d] = "seller-refunded"
  <1>1. \A v \in Views : Truthful(v) =>
          \A d \in Disputes : is_terminal_status(v[d]) => v[d] = mostro'[d]
    BY DEF EndsKept, Truthful
  <1>2. ASSUME NEW s \in SUBSET (Disputes \X Statuses), Told(s), NEW e \in s,
               is_terminal_status(e[2])
        PROVE  e[2] = mostro'[e[1]]
    <2>1. e[1] \in Disputes /\ e[2] = mostro[e[1]]
      BY <1>2 DEF Told
    <2> QED
      BY <1>2, <2>1 DEF EndsKept
  <1>3. is_terminal_status("settled") /\ is_terminal_status("seller-refunded")
    BY DEF is_terminal_status, Outcomes
  <1> QED
    BY <1>1, <1>2, <1>3 DEF EndsKept

\* Mostro's own steps.
LEMMA PublishesKeeps ==
  ASSUME DisputesTyped, NEW d \in Disputes, NEW s \in Statuses,
         ~is_terminal_status(mostro[d]), Publishes(d, s)
  PROVE  /\ EndsKept
         /\ mostro' \in [Disputes -> Statuses]
         /\ mostro'[d] = s /\ listed' \subseteq Disputes
         /\ notes' = notes \cup {<<d, s>>}
  BY DEF DisputesTyped, Publishes, EndsKept

LEMMA DaemonKeeps ==
  ASSUME DisputesTyped, UNCHANGED daemon
  PROVE  EndsKept /\ mostro' = mostro /\ notes' = notes /\ listed' = listed
  BY DEF daemon, EndsKept

LEMMA AnswerStep ==
  ASSUME DisputesInv, NEW j \in Jobs, NEW action \in Answers, Answer(j, action),
         EndsKept, mostro' \in [Disputes -> Statuses], listed' \subseteq Disputes,
         AnswerTrue(j, action)',
         \/ notes' = notes
         \/ \E d \in Disputes : notes' = notes \cup {<<d, mostro'[d]>>}
  PROVE  DisputesInv'
  <1>1. /\ j \in inbox /\ inbox' = inbox \ {j}
        /\ replies' = replies \cup {<<j, action>>}
        /\ UNCHANGED <<job, rows, book, mem, snap, todo, resolved>>
    BY DEF Answer, task, plan
  <1>2. DisputesTyped'
    BY <1>1 DEF DisputesInv, DisputesTyped
  <1>3. ViewsTruthful'
    BY <1>1, StaysTrue DEF DisputesInv, DisputesTyped, ViewsTruthful, Truthful
  <1>4. Told(notes)'
    <2>1. \A e \in notes : is_terminal_status(e[2]) => e[2] = mostro'[e[1]]
      BY StaysTrue DEF DisputesInv, DisputesTyped, EventsTold
    <2> QED
      BY <2>1 DEF Told
  <1>5. EventsTold'
    BY <1>1, <1>4, StaysTrue DEF DisputesInv, DisputesTyped, EventsTold, Told
  <1>6. WritersTrue'
    BY <1>1, StaysTrue DEF DisputesInv, DisputesTyped, WritersTrue
  <1>7. RequestsTrue'
    <2>1. \A i \in inbox' : job'[i].at # "new"
      BY <1>1 DEF DisputesInv, RequestsTrue
    <2>2. job'[j].at # "new"
      BY <1>1 DEF DisputesInv, RequestsTrue
    <2>3. ASSUME NEW r \in replies
          PROVE  job'[r[1]].at # "new" /\ AnswerTrue(r[1], r[2])'
      <3>1. job[r[1]].at # "new" /\ AnswerTrue(r[1], r[2]) /\ job[r[1]].of \in Disputes
        BY DEF DisputesInv, DisputesTyped, RequestsTrue
      <3> QED
        BY <1>1, <3>1, StaysTrue DEF DisputesInv, AnswerTrue
    <2> QED
      BY <1>1, <2>1, <2>2, <2>3 DEF RequestsTrue
  <1> QED
    BY <1>2, <1>3, <1>5, <1>6, <1>7 DEF DisputesInv

LEMMA MostroStep ==
  ASSUME DisputesInv, MostroNext
  PROVE  DisputesInv'
  <1> USE DEF is_terminal_status, Outcomes
  <1>1. ASSUME NEW d \in Disputes, CrowdOut(d) PROVE DisputesInv'
    BY <1>1 DEF CrowdOut, mail, task, plan, DisputesInv, DisputesTyped, ViewsTruthful,
       Truthful, EventsTold, Told, RequestsTrue, AnswerTrue, WritersTrue
  <1>2. ASSUME NEW d \in Disputes, NEW s \in Unasked, CloseUnasked(d, s)
        PROVE  DisputesInv'
    <2>1. s \in Statuses
      BY UnaskedAssumption DEF Statuses
    <2>2. /\ EndsKept /\ mostro' \in [Disputes -> Statuses] /\ mostro'[d] = s
          /\ listed' \subseteq Disputes
          /\ notes' = notes \cup {<<d, s>>}
      BY <1>2, <2>1, PublishesKeeps DEF CloseUnasked, DisputesInv
    <2>3. UNCHANGED <<job, rows, book, mem, snap, todo, resolved, inbox, replies>>
      BY <1>2 DEF CloseUnasked, mail, task, plan
    <2>4. DisputesTyped' /\ ViewsTruthful' /\ WritersTrue'
      BY <2>1, <2>2, <2>3, StaysTrue
      DEF DisputesInv, DisputesTyped, ViewsTruthful, Truthful, WritersTrue
    <2>5. EventsTold'
      BY <2>2, <2>3, StaysTrue DEF DisputesInv, DisputesTyped, EventsTold, Told
    <2>6. RequestsTrue'
      <3>1. ASSUME NEW r \in replies
            PROVE  job'[r[1]].at # "new" /\ AnswerTrue(r[1], r[2])'
        <4>1. job[r[1]].at # "new" /\ AnswerTrue(r[1], r[2]) /\ job[r[1]].of \in Disputes
          BY DEF DisputesInv, DisputesTyped, RequestsTrue
        <4> QED
          BY <2>2, <2>3, <4>1, StaysTrue DEF DisputesInv, AnswerTrue
      <3> QED
        BY <2>3, <3>1 DEF DisputesInv, RequestsTrue
    <2> QED
      BY <2>4, <2>5, <2>6 DEF DisputesInv
  <1>3. ASSUME NEW j \in Jobs, GrantTake(j) PROVE DisputesInv'
    <2>1. Answer(j, "took") /\ AnswerTrue(j, "took")' /\ "took" \in Answers
      BY <1>3 DEF GrantTake, AnswerTrue, Answers
    <2>2. job[j].of \in Disputes
      BY DEF DisputesInv, DisputesTyped
    <2>3. CASE mostro[job[j].of] = "initiated" /\ Publishes(job[j].of, "in-progress")
      <3>1. /\ EndsKept /\ mostro' \in [Disputes -> Statuses]
            /\ mostro'[job[j].of] = "in-progress" /\ listed' \subseteq Disputes
            /\ notes' = notes \cup {<<job[j].of, "in-progress">>}
        BY <2>2, <2>3, PublishesKeeps DEF DisputesInv, Statuses
      <3> QED
        BY <2>1, <2>2, <3>1, AnswerStep
    <2>4. CASE UNCHANGED daemon
      BY <2>1, <2>4, DaemonKeeps, AnswerStep DEF DisputesInv, DisputesTyped
    <2> QED
      BY <1>3, <2>3, <2>4 DEF GrantTake
  <1>4. ASSUME NEW j \in Jobs, GrantFinalize(j) PROVE DisputesInv'
    <2>1. PICK a \in {"settled", "canceled"}, o \in Outcomes :
            /\ Answer(j, a) /\ mostro[job[j].of] = "in-progress"
            /\ Publishes(job[j].of, o)
            /\ a = "settled" => o = "settled"
            /\ a = "canceled" => o = "seller-refunded"
      <3>1. CASE job[j].kind = "settle"
        BY <1>4, <3>1 DEF GrantFinalize, Outcome
      <3>2. CASE job[j].kind # "settle"
        BY <1>4, <3>2 DEF GrantFinalize, Outcome
      <3> QED
        BY <3>1, <3>2
    <2>7. a \in Answers /\ o \in Statuses
      BY DEF Answers, Statuses
    <2>2. job[j].of \in Disputes
      BY DEF DisputesInv, DisputesTyped
    <2>3. /\ EndsKept /\ mostro' \in [Disputes -> Statuses] /\ mostro'[job[j].of] = o
          /\ listed' \subseteq Disputes
          /\ notes' = notes \cup {<<job[j].of, o>>}
      BY <2>1, <2>2, <2>7, PublishesKeeps DEF DisputesInv
    <2>4. job' = job
      BY <2>1 DEF Answer
    <2>5. AnswerTrue(j, a)'
      BY <2>1, <2>3, <2>4 DEF AnswerTrue
    <2>6. notes' = notes \cup {<<job[j].of, mostro'[job[j].of]>>}
      BY <2>3
    <2> QED
      BY <2>1, <2>2, <2>3, <2>5, <2>6, <2>7, AnswerStep
  <1>5. ASSUME NEW j \in Jobs, AlreadyCanceled(j) PROVE DisputesInv'
    <2>1. /\ Answer(j, "coop") /\ "coop" \in Answers /\ UNCHANGED daemon
          /\ mostro[job[j].of] = "seller-refunded" /\ job' = job
      BY <1>5 DEF AlreadyCanceled, Answers, Answer
    <2>2. AnswerTrue(j, "coop")'
      BY <2>1 DEF AnswerTrue, daemon
    <2> QED
      BY <2>1, <2>2, DaemonKeeps, AnswerStep DEF DisputesInv, DisputesTyped
  <1>6. ASSUME NEW j \in Jobs, Refuse(j) PROVE DisputesInv'
    <2>1. Answer(j, "cant") /\ AnswerTrue(j, "cant")' /\ "cant" \in Answers
          /\ UNCHANGED daemon
      BY <1>6 DEF Refuse, AnswerTrue, Answers
    <2> QED
      BY <2>1, DaemonKeeps, AnswerStep DEF DisputesInv, DisputesTyped
  <1> QED
    BY <1>1, <1>2, <1>3, <1>4, <1>5, <1>6 DEF MostroNext

-----------------------------------------------------------------------------
\* What a step that leaves Mostro alone has to show.
LEMMA ProgramStep ==
  ASSUME DisputesInv, mostro' = mostro,
         DisputesTyped', ViewsTruthful', EventsTold', RequestsTrue', WritersTrue'
  PROVE  DisputesInv'
  BY DEF DisputesInv

\* A task moves to a place where it writes nothing.
LEMMA MoveTyped ==
  ASSUME DisputesInv, NEW j \in Jobs, NEW place \in Places, At(j, place),
         place \notin {"new", "write-settled", "write-refunded"},
         UNCHANGED <<daemon, book, mem, task>>,
         inbox' \subseteq inbox \cup {j}, replies' = replies,
         rows' \in Views, Truthful(rows)'
  PROVE  DisputesInv'
  <1>1. UNCHANGED <<mostro, listed, notes, snap, todo, resolved>>
    BY DEF daemon, task, plan
  <1>2. \A i \in Jobs : /\ job'[i].of = job[i].of
                        /\ job'[i].at = IF i = j THEN place ELSE job[i].at
    BY DEF At, DisputesInv, DisputesTyped
  <1>3. DisputesTyped'
    BY <1>1 DEF At, DisputesInv, DisputesTyped
  <1>4. ViewsTruthful' /\ EventsTold'
    BY <1>1 DEF DisputesInv, ViewsTruthful, Truthful, EventsTold, Told
  <1>5. RequestsTrue'
    BY <1>1, <1>2 DEF DisputesInv, DisputesTyped, RequestsTrue, AnswerTrue
  <1>6. WritersTrue'
    BY <1>1, <1>2 DEF DisputesInv, WritersTrue
  <1> QED
    BY <1>1, <1>3, <1>4, <1>5, <1>6, ProgramStep

LEMMA JobStep ==
  ASSUME DisputesInv, NEW j \in Jobs,
         \/ ReadForFinalize(j) \/ TimeOut(j) \/ CheckRow(j) \/ InsertRow(j)
         \/ GuardUpdate(j) \/ UpdateRow(j) \/ TrackChats(j) \/ WriteOutcome(j)
  PROVE  DisputesInv'
  <1>0. rows \in Views /\ Truthful(rows) /\ job[j].of \in Disputes
    BY DEF DisputesInv, DisputesTyped, ViewsTruthful
  <1>1. ASSUME UNCHANGED <<rows, daemon>> PROVE rows' \in Views /\ Truthful(rows)'
    BY <1>0, <1>1 DEF Truthful, daemon
  <1>2. CASE ReadForFinalize(j)
    BY <1>1, <1>2, MoveTyped DEF ReadForFinalize, Places
  <1>3. CASE TimeOut(j) \/ CheckRow(j) \/ GuardUpdate(j)
    <2>1. /\ \E p \in {"done", "save", "update"} : At(j, p)
          /\ UNCHANGED <<daemon, book, mem, task, inbox, replies, rows>>
      BY <1>3 DEF TimeOut, CheckRow, GuardUpdate, mail
    <2> QED
      BY <1>1, <2>1, MoveTyped DEF Places
  <1>4. CASE TrackChats(j)
    BY <1>1, <1>4, MoveTyped DEF TrackChats, Places, mail
  <1>5. CASE InsertRow(j) \/ UpdateRow(j)
    <2>1. /\ \E p \in {"track", "guard"} : At(j, p)
          /\ rows' = rows \/ rows' = [rows EXCEPT ![job[j].of] = "in-progress"]
          /\ UNCHANGED <<daemon, book, mem, task, inbox, replies>>
      BY <1>5 DEF InsertRow, UpdateRow, mail
    <2>2. mostro' = mostro
      BY <2>1 DEF daemon
    <2>3. rows' \in Views /\ Truthful(rows)'
      BY <1>0, <2>1, <2>2 DEF Views, Statuses, Truthful, is_terminal_status, Outcomes
    <2> QED
      BY <2>1, <2>3, MoveTyped DEF Places
  <1>6. CASE WriteOutcome(j)
    <2>1. /\ At(j, "done")
          /\ rows' = [rows EXCEPT ![job[j].of] = FinalStatus(j)]
          /\ UNCHANGED <<daemon, book, mem, task, inbox, replies>>
      BY <1>6 DEF WriteOutcome, mail
    <2>2. FinalStatus(j) = mostro[job[j].of] /\ FinalStatus(j) \in Statuses
      BY <1>6 DEF WriteOutcome, FinalStatus, DisputesInv, WritersTrue, Statuses, Outcomes
    <2>3. mostro' = mostro
      BY <2>1 DEF daemon
    <2>4. rows' \in Views /\ Truthful(rows)'
      BY <1>0, <2>1, <2>2, <2>3 DEF Views, Truthful
    <2> QED
      BY <2>1, <2>4, MoveTyped DEF Places
  <1> QED
    BY <1>2, <1>3, <1>4, <1>5, <1>6

\* A task starts: its request is a new one.
LEMMA StartStep ==
  ASSUME DisputesInv, SolverNext
  PROVE  DisputesInv'
  <1>1. PICK j \in Jobs, d \in Disputes :
          \/ StartTake(j, d)
          \/ \E kind \in {"settle", "cancel"} : StartFinalize(j, d, kind)
    BY DEF SolverNext
  <1>2. PICK k \in Kinds, p \in {"asked", "read"} :
          /\ job[j].at = "new"
          /\ job' = [job EXCEPT ![j] = [kind |-> k, of |-> d, at |-> p]]
    BY <1>1 DEF StartTake, StartFinalize, Kinds
  <1>3. /\ UNCHANGED <<mostro, listed, notes, replies, rows, book, mem, snap, todo, resolved>>
        /\ inbox' = inbox \/ inbox' = inbox \cup {j}
    BY <1>1 DEF StartTake, StartFinalize, daemon, mail, task, plan
  <1>4. /\ job'[j] = [kind |-> k, of |-> d, at |-> p]
        /\ \A i \in Jobs : i # j => job'[i] = job[i]
    BY <1>2 DEF DisputesInv, DisputesTyped
  <1>5. DisputesTyped'
    BY <1>2, <1>3 DEF DisputesInv, DisputesTyped, Places
  <1>6. ViewsTruthful' /\ EventsTold'
    BY <1>3 DEF DisputesInv, ViewsTruthful, Truthful, EventsTold, Told
  <1>7. RequestsTrue'
    <2>1. \A r \in replies : r[1] # j /\ r[1] \in Jobs
      BY <1>2 DEF DisputesInv, DisputesTyped, RequestsTrue
    <2>2. \A i \in inbox' : job'[i].at # "new"
      BY <1>3, <1>4 DEF DisputesInv, DisputesTyped, RequestsTrue
    <2> QED
      BY <1>3, <1>4, <2>1, <2>2 DEF DisputesInv, RequestsTrue, AnswerTrue
  <1>8. WritersTrue'
    BY <1>3, <1>4 DEF DisputesInv, WritersTrue
  <1> QED
    BY <1>3, <1>5, <1>6, <1>7, <1>8, ProgramStep

LEMMA DeliverStep ==
  ASSUME DisputesInv, NEW reply \in replies, Deliver(reply)
  PROVE  DisputesInv'
  <1>1. /\ replies' = replies \ {reply}
        /\ UNCHANGED <<mostro, listed, notes, inbox, rows, book, mem, snap, todo, resolved>>
    BY DEF Deliver, daemon, task, plan
  <1>2. ASSUME NEW i \in Jobs
        PROVE  /\ job'[i] \in [kind : Kinds, of : Disputes, at : Places]
               /\ job'[i].of = job[i].of
               /\ job[i].at # "new" => job'[i].at # "new"
               /\ job'[i].at = job[i].at \/ job'[i].at = AfterAnswer(i, reply)
    <2>1. AfterAnswer(i, reply) \in Places \ {"new"}
      BY DEF AfterAnswer, Places
    <2>2. job[i] \in [kind : Kinds, of : Disputes, at : Places]
      BY DEF DisputesInv, DisputesTyped
    <2>3. job'[i] = IF job[i].at = "asked"
                    THEN [job[i] EXCEPT !.at = AfterAnswer(i, reply)] ELSE job[i]
      BY DEF Deliver
    <2> QED
      BY <2>1, <2>2, <2>3
  <1>3. DisputesTyped'
    <2>1. job' \in [Jobs -> [kind : Kinds, of : Disputes, at : Places]]
      BY <1>2 DEF Deliver
    <2> QED
      BY <1>1, <2>1 DEF DisputesInv, DisputesTyped
  <1>4. ViewsTruthful' /\ EventsTold'
    BY <1>1 DEF DisputesInv, ViewsTruthful, Truthful, EventsTold, Told
  <1>5. RequestsTrue'
    BY <1>1, <1>2 DEF DisputesInv, DisputesTyped, RequestsTrue, AnswerTrue
  <1>6. ASSUME NEW i \in Jobs
        PROVE  /\ AfterAnswer(i, reply) = "write-settled"
                    => mostro[job[i].of] = "settled"
               /\ AfterAnswer(i, reply) = "write-refunded"
                    => mostro[job[i].of] = "seller-refunded"
    <2>1. AnswerTrue(reply[1], reply[2])
      BY DEF DisputesInv, RequestsTrue
    <2>2. AfterAnswer(i, reply) = "write-settled" => reply[1] = i /\ reply[2] = "settled"
      BY DEF AfterAnswer
    <2>3. AfterAnswer(i, reply) = "write-refunded"
            => reply[1] = i /\ reply[2] \in {"canceled", "coop"}
      BY DEF AfterAnswer
    <2> QED
      BY <2>1, <2>2, <2>3 DEF AnswerTrue
  <1>7. WritersTrue'
    BY <1>1, <1>2, <1>6 DEF DisputesInv, WritersTrue
  <1> QED
    BY <1>1, <1>3, <1>4, <1>5, <1>7, ProgramStep

-----------------------------------------------------------------------------
\* Steps of the main loop and the scheduler: the tasks and Mostro rest.
LEMMA ViewStep ==
  ASSUME DisputesInv,
         UNCHANGED <<mostro, listed, job, inbox, replies>>,
         rows' \in Views, book' \in Views, mem' \in Views, ViewsTruthful',
         notes' \subseteq Disputes \X Statuses, snap' \subseteq Disputes \X Statuses,
         todo' \subseteq Disputes \X Statuses, resolved' \subseteq Disputes \X Statuses,
         EventsTold'
  PROVE  DisputesInv'
  BY DEF DisputesInv, DisputesTyped, RequestsTrue, AnswerTrue, WritersTrue

LEMMA MainStep ==
  ASSUME DisputesInv, MainNext
  PROVE  DisputesInv'
  <1>1. UNCHANGED <<mostro, listed, job, inbox, replies, rows, book, notes, snap, todo, resolved>>
    BY DEF MainNext, ApplyNews, apply_terminal_relay_statuses_to_admin_disputes,
       daemon, mail, task, plan
  <1>2. mem' \in Views /\ Truthful(mem)'
    <2>1. CASE ApplyNews
      BY <1>1, <2>1 DEF ApplyNews, DisputesInv, DisputesTyped, ViewsTruthful, Truthful
    <2>2. CASE apply_terminal_relay_statuses_to_admin_disputes
      <3>1. mem' = [d \in Disputes |-> IF d \in Closed THEN book[d] ELSE mem[d]]
        BY <2>2 DEF apply_terminal_relay_statuses_to_admin_disputes
      <3> QED
        BY <1>1, <3>1 DEF DisputesInv, DisputesTyped, ViewsTruthful, Truthful, Views
    <2> QED
      BY <2>1, <2>2 DEF MainNext
  <1>3. ViewsTruthful' /\ EventsTold'
    BY <1>1, <1>2 DEF DisputesInv, ViewsTruthful, Truthful, EventsTold, Told
  <1> QED
    BY <1>1, <1>2, <1>3, ViewStep DEF DisputesInv, DisputesTyped

\* What a snapshot, or what it asked for, shows of a dispute is in it.
LEMMA ShownIsTold ==
  ASSUME NEW events, events \subseteq Disputes \X Statuses, Told(events), NEW d \in Disputes
  PROVE  /\ Shown(d, events) \in Statuses \cup {"none"}
         /\ is_terminal_status(Shown(d, events)) => Shown(d, events) = mostro[d]
  <1>1. CASE \E e \in events : e[1] = d
    <2> DEFINE c == CHOOSE e \in events : e[1] = d
    <2>1. c \in events /\ c[1] = d
      BY <1>1
    <2>2. Shown(d, events) = c[2]
      BY <1>1 DEF Shown
    <2> HIDE DEF c
    <2> QED
      BY <2>1, <2>2 DEF Told
  <1>2. CASE ~ \E e \in events : e[1] = d
    BY <1>2 DEF Shown, is_terminal_status, Outcomes
  <1> QED
    BY <1>1, <1>2

LEMMA BookStep ==
  ASSUME DisputesInv, NEW events, events \subseteq Disputes \X Statuses, Told(events),
         NEW b \in Views,
         \A d \in Disputes : b[d] = book[d] \/ b[d] = Shown(d, events)
  PROVE  Truthful(b)
  BY ShownIsTold DEF DisputesInv, ViewsTruthful, Truthful

LEMMA SchedulerStep ==
  ASSUME DisputesInv, SchedulerNext
  PROVE  DisputesInv'
  <1>0. UNCHANGED <<mostro, listed, job, inbox, replies, mem>>
    BY DEF SchedulerNext, FetchAnswered, FetchFailed, FillBook, ListRows, AskFailed,
       EndTick, ApplyLive, AskAnswered, Hear, reconcile_one_admin_dispute_if_terminal,
       daemon, mail
  <1> USE DEF DisputesInv, DisputesTyped, ViewsTruthful, EventsTold
  <1>1. CASE FetchAnswered
    <2>1. /\ UNCHANGED <<notes, rows, book, resolved>>
          /\ snap' = Newest /\ todo' = Terminal(Newest)
      BY <1>1 DEF FetchAnswered, daemon, plan
    <2>2. Newest \subseteq Disputes \X Statuses /\ Terminal(Newest) \subseteq Newest
      BY DEF Newest, Terminal
    <2>3. Told(snap)' /\ Told(todo)'
      BY <1>0, <2>1, <2>2 DEF Newest, Told
    <2>4. ViewsTruthful' /\ EventsTold'
      BY <1>0, <2>1, <2>3 DEF Truthful, Told
    <2> QED
      BY <1>0, <2>1, <2>2, <2>4, ViewStep
  <1>2. CASE FetchFailed \/ ListRows \/ AskFailed
    <2>1. /\ UNCHANGED <<notes, rows, book, todo, resolved>>
          /\ snap' = snap \/ snap' = {}
      BY <1>2 DEF FetchFailed, ListRows, AskFailed, daemon, plan
    <2>2. ViewsTruthful' /\ EventsTold'
      BY <1>0, <2>1 DEF Truthful, Told
    <2> QED
      BY <1>0, <2>1, <2>2, ViewStep
  <1>3. CASE FillBook \/ EndTick \/ ApplyLive
    <2>1. /\ UNCHANGED <<notes, rows, todo>>
          /\ snap' = snap \/ snap' = {}
          /\ resolved' = resolved \/ resolved' = {}
      BY <1>3 DEF FillBook, EndTick, ApplyLive, daemon, plan
    <2>2. \/ book' = [d \in Disputes |-> Shown(d, snap)]
          \/ book' = [d \in Disputes |->
                        IF Shown(d, resolved) = "none" THEN book[d] ELSE Shown(d, resolved)]
          \/ book' = [d \in Disputes |-> IF d \in Seen THEN Shown(d, snap) ELSE book[d]]
      BY <1>3 DEF FillBook, EndTick, ApplyLive, replaced, book_with_resolved
    <2>3. \A d \in Disputes : /\ Shown(d, snap) \in Statuses \cup {"none"}
                              /\ Shown(d, resolved) \in Statuses \cup {"none"}
      BY ShownIsTold
    <2>4. book' \in Views
      BY <2>2, <2>3 DEF Views
    <2>5. \/ \A d \in Disputes : book'[d] = book[d] \/ book'[d] = Shown(d, snap)
          \/ \A d \in Disputes : book'[d] = book[d] \/ book'[d] = Shown(d, resolved)
      BY <2>2
    <2>6. Truthful(book)'
      BY <1>0, <2>4, <2>5, BookStep DEF Truthful
    <2>7. ViewsTruthful' /\ EventsTold'
      BY <1>0, <2>1, <2>6 DEF Truthful, Told
    <2> QED
      BY <1>0, <2>1, <2>4, <2>7, ViewStep
  <1>4. ASSUME NEW d \in Disputes, AskAnswered(d) PROVE DisputesInv'
    <2> DEFINE t == Terminal({<<d, mostro[d]>>})
    <2>1. UNCHANGED <<notes, rows, book, snap>> /\ todo' = t /\ resolved' = resolved \cup t
      BY <1>4 DEF AskAnswered, daemon
    <2>2. t \subseteq Disputes \X Statuses /\ \A e \in t : e[2] = mostro[e[1]]
      BY DEF Terminal
    <2> HIDE DEF t
    <2>3. ViewsTruthful' /\ EventsTold'
      BY <1>0, <2>1, <2>2 DEF Truthful, Told
    <2> QED
      BY <1>0, <2>1, <2>2, <2>3, ViewStep
  <1>5. ASSUME NEW e \in notes, Hear(e) PROVE DisputesInv'
    <2>1. /\ UNCHANGED <<rows, book, resolved>> /\ notes' = notes \ {e}
          /\ snap' = {e} /\ todo' = Terminal({e})
      BY <1>5 DEF Hear, plan
    <2>2. Terminal({e}) \subseteq {e}
      BY DEF Terminal
    <2>3. ViewsTruthful' /\ EventsTold'
      BY <1>0, <2>1, <2>2 DEF Truthful, Told
    <2> QED
      BY <1>0, <2>1, <2>2, <2>3, ViewStep
  <1>6. ASSUME NEW e \in todo, reconcile_one_admin_dispute_if_terminal(e)
        PROVE  DisputesInv'
    <2>1. /\ UNCHANGED <<notes, book, snap, resolved>> /\ todo' = todo \ {e}
          /\ rows' = rows \/ rows' = [rows EXCEPT ![e[1]] = e[2]]
      BY <1>6 DEF reconcile_one_admin_dispute_if_terminal, daemon, plan
    <2>2. e[1] \in Disputes /\ e[2] \in Statuses
      OBVIOUS
    <2>3. is_terminal_status(e[2]) => e[2] = mostro[e[1]]
      BY DEF Told
    <2>4. rows' \in Views /\ Truthful(rows)'
      BY <1>0, <2>1, <2>2, <2>3 DEF Views, Truthful
    <2>5. ViewsTruthful' /\ EventsTold'
      BY <1>0, <2>1, <2>4 DEF Truthful, Told
    <2> QED
      BY <1>0, <2>1, <2>4, <2>5, ViewStep
  <1> QED
    BY <1>1, <1>2, <1>3, <1>4, <1>5, <1>6 DEF SchedulerNext

\* A reload and a crash start the scheduler again with nothing in its hands.
LEMMA StartsStep ==
  ASSUME DisputesInv, SchedulerStarts
  PROVE  UNCHANGED <<mostro, listed>> /\ snap' = {} /\ todo' = {} /\ resolved' = {}
         /\ notes' = {} /\ EventsTold'
  BY DEF SchedulerStarts, EventsTold, Told

LEMMA ReloadStep ==
  ASSUME DisputesInv, Reload
  PROVE  DisputesInv'
  <1>1. UNCHANGED <<job, inbox, replies, rows, book, mem>> /\ SchedulerStarts
    BY DEF Reload, mail
  <1>2. ViewsTruthful'
    BY <1>1, StartsStep DEF DisputesInv, ViewsTruthful, Truthful
  <1> QED
    BY <1>1, <1>2, StartsStep, ViewStep DEF DisputesInv, DisputesTyped

LEMMA CrashStep ==
  ASSUME DisputesInv, Crash
  PROVE  DisputesInv'
  <1>1. /\ SchedulerStarts /\ replies' = {} /\ inbox' = inbox
        /\ book' = [d \in Disputes |-> "none"] /\ mem' = rows /\ rows' = rows
        /\ job' = [j \in Jobs |-> IF job[j].at = "new" THEN job[j]
                                  ELSE [job[j] EXCEPT !.at = "done"]]
    BY DEF Crash
  <1>2. ASSUME NEW j \in Jobs
        PROVE  /\ job'[j] \in [kind : Kinds, of : Disputes, at : Places]
               /\ job[j].at # "new" => job'[j].at # "new"
               /\ job'[j].at \in {"new", "done"}
    BY <1>1 DEF DisputesInv, DisputesTyped, Places
  <1>3. DisputesTyped'
    <2>1. job' \in [Jobs -> [kind : Kinds, of : Disputes, at : Places]]
      BY <1>1, <1>2
    <2>2. book' \in Views
      BY <1>1 DEF Views
    <2> QED
      BY <1>1, <2>1, <2>2, StartsStep DEF DisputesInv, DisputesTyped
  <1>4. ViewsTruthful'
    <2>1. Truthful(book)'
      BY <1>1 DEF Truthful, is_terminal_status, Outcomes
    <2> QED
      BY <1>1, <2>1, StartsStep DEF DisputesInv, ViewsTruthful, Truthful
  <1>5. RequestsTrue' /\ WritersTrue'
    BY <1>1, <1>2 DEF DisputesInv, DisputesTyped, RequestsTrue, WritersTrue
  <1>6. EventsTold'
    BY <1>1, StartsStep
  <1> QED
    BY <1>3, <1>4, <1>5, <1>6 DEF DisputesInv

LEMMA DisputesInvStep == DisputesInv /\ [Next]_vars => DisputesInv'
  <1> SUFFICES ASSUME DisputesInv, [Next]_vars PROVE DisputesInv'
    OBVIOUS
  <1>1. CASE UNCHANGED vars
    BY <1>1 DEF vars, daemon, mail, task, plan, DisputesInv, DisputesTyped,
       ViewsTruthful, Truthful, EventsTold, Told, RequestsTrue, AnswerTrue, WritersTrue
  <1>2. CASE JobNext
    BY <1>2, JobStep, DeliverStep DEF JobNext
  <1> QED
    BY <1>1, <1>2, MostroStep, StartStep, MainStep, SchedulerStep, ReloadStep, CrashStep
    DEF Next

LEMMA DisputesInvariant == Spec => []DisputesInv
  BY DisputesInvInit, DisputesInvStep, PTL DEF Spec

\* A dispute the solver's program holds for ended, in its row or in its list,
\* ended at Mostro, and ended that way, whoever decided it and however the
\* answers on the one admin key are mixed up.
THEOREM DisputesEndAsDecided == Spec => []EndedAsDecided
  <1>1. DisputesInv => EndedAsDecided
    BY DEF DisputesInv, ViewsTruthful, Truthful, EndedAsDecided
  <1> QED
    BY <1>1, DisputesInvariant, PTL

-----------------------------------------------------------------------------
(* The party chats.                                                        *)

\* The scheduler reconciles rows with ends only.
TodoIsTerminal == \A e \in todo : is_terminal_status(e[2])

\* Until a reload, a dispute in progress in the rows and not decided has its chats
\* or a task about to hand them over.
ChatsKept ==
  /\ reloads \in Nat
  /\ reloads = 0 =>
       \A d \in Disputes : rows[d] = "in-progress" /\ ~is_terminal_status(mostro[d])
                             => d \in chats \/ Taking(d)
ChatsInv == TodoIsTerminal /\ ChatsKept

\* No step of the program or of Mostro undoes a decision.
LEMMA NextKeepsEnds ==
  ASSUME DisputesInv, [Next]_vars PROVE EndsKept
  <1>1. ASSUME UNCHANGED daemon PROVE EndsKept
    BY <1>1 DEF daemon, EndsKept
  <1>2. ASSUME MostroNext PROVE EndsKept
    <2>1. ASSUME NEW d \in Disputes, CrowdOut(d) PROVE EndsKept
      BY <2>1 DEF CrowdOut, EndsKept
    <2>2. ASSUME NEW d \in Disputes, NEW s, Publishes(d, s), ~is_terminal_status(mostro[d])
          PROVE  EndsKept
      BY <2>2 DEF Publishes, EndsKept, DisputesInv, DisputesTyped
    <2>3. ASSUME NEW d \in Disputes, NEW s \in Unasked, CloseUnasked(d, s) PROVE EndsKept
      BY <2>2, <2>3 DEF CloseUnasked
    <2>4. ASSUME NEW j \in Jobs, GrantTake(j) PROVE EndsKept
      BY <1>1, <2>2, <2>4 DEF GrantTake, DisputesInv, DisputesTyped, is_terminal_status, Outcomes
    <2>5. ASSUME NEW j \in Jobs, GrantFinalize(j) PROVE EndsKept
      BY <2>2, <2>5 DEF GrantFinalize, DisputesInv, DisputesTyped, is_terminal_status, Outcomes
    <2>6. ASSUME NEW j \in Jobs, AlreadyCanceled(j) \/ Refuse(j) PROVE EndsKept
      BY <1>1, <2>6 DEF AlreadyCanceled, Refuse
    <2> QED
      BY <1>2, <2>1, <2>3, <2>4, <2>5, <2>6 DEF MostroNext
  <1>3. ASSUME SolverNext \/ JobNext \/ MainNext \/ UNCHANGED vars PROVE EndsKept
    BY <1>1, <1>3
    DEF SolverNext, StartTake, StartFinalize, JobNext, ReadForFinalize, TimeOut, CheckRow,
        InsertRow, GuardUpdate, UpdateRow, TrackChats, WriteOutcome, Deliver, MainNext,
        ApplyNews, apply_terminal_relay_statuses_to_admin_disputes, vars
  <1>4. ASSUME SchedulerNext \/ Reload \/ Crash PROVE mostro' = mostro
    BY <1>4
    DEF SchedulerNext, FetchAnswered, FetchFailed, FillBook, ListRows, AskFailed, EndTick,
        ApplyLive, AskAnswered, Hear, reconcile_one_admin_dispute_if_terminal,
        Reload, Crash, SchedulerStarts, daemon
  <1> QED
    BY <1>2, <1>3, <1>4 DEF Next, EndsKept

\* A step that saves no row, ends no hand-over and drops the chats of decided
\* disputes only.
LEMMA QuietKeepsChats ==
  ASSUME ChatsKept, EndsKept, DisputesTyped, reloads' = reloads,
         \A d \in Disputes : rows'[d] = "in-progress" => rows[d] = "in-progress" \/ Taking(d)',
         \A d \in Disputes : d \in chats /\ d \notin chats' => is_terminal_status(mostro'[d])
                                                               \/ rows'[d] # "in-progress",
         \A d \in Disputes : Taking(d) => Taking(d)' \/ d \in chats'
  PROVE  ChatsKept'
  BY DEF ChatsKept, EndsKept, DisputesTyped

\* A task keeps the place of the others, and while it is handing chats over it
\* stays about its dispute.
LEMMA MovesOnlyItself ==
  ASSUME DisputesTyped, NEW j \in Jobs, NEW p \in Places, At(j, p), NEW d \in Disputes, Taking(d)
  PROVE  Taking(d)' \/ (job[j].at = "track" /\ job[j].of = d)
  BY DEF Taking, At, DisputesTyped

LEMMA JobKeepsChats ==
  ASSUME DisputesInv, ChatsInv, EndsKept, NEW j \in Jobs,
         \/ ReadForFinalize(j) \/ TimeOut(j) \/ CheckRow(j) \/ InsertRow(j)
         \/ GuardUpdate(j) \/ UpdateRow(j) \/ TrackChats(j) \/ WriteOutcome(j)
  PROVE  ChatsInv'
  <1>1. todo' = todo /\ reloads' = reloads
    BY DEF ReadForFinalize, TimeOut, CheckRow, InsertRow, GuardUpdate, UpdateRow, TrackChats,
       WriteOutcome, task, faults
  <1>2. PICK p \in Places : At(j, p)
    BY DEF ReadForFinalize, TimeOut, CheckRow, InsertRow, GuardUpdate, UpdateRow, TrackChats,
       WriteOutcome, Places
  <1>3. DisputesTyped /\ job[j].of \in Disputes /\ job'[j].of = job[j].of
    BY <1>2 DEF DisputesInv, DisputesTyped, At
  <1>4. CASE TrackChats(j)
    BY <1>1, <1>2, <1>3, <1>4, MovesOnlyItself, QuietKeepsChats
    DEF TrackChats, ChatsInv, TodoIsTerminal
  <1>5. CASE InsertRow(j) \/ UpdateRow(j)
    <2>1. /\ chats' = chats /\ job[j].at # "track"
          /\ \/ rows' = rows
             \/ rows' = [rows EXCEPT ![job[j].of] = "in-progress"] /\ At(j, "track")
      BY <1>5 DEF InsertRow, UpdateRow
    <2>3. \A d \in Disputes : rows'[d] = rows[d] \/ (d = job[j].of /\ job'[j].at = "track")
      BY <1>3, <2>1 DEF At, DisputesTyped, Views
    <2>2. \A d \in Disputes : rows'[d] = "in-progress" => rows[d] = "in-progress" \/ Taking(d)'
      BY <1>3, <2>3 DEF Taking
    <2> QED
      BY <1>1, <1>2, <1>3, <2>1, <2>2, MovesOnlyItself, QuietKeepsChats
      DEF ChatsInv, TodoIsTerminal
  <1>6. CASE WriteOutcome(j)
    <2>1. /\ job[j].at # "track" /\ chats' = chats \ {job[j].of}
          /\ \A d \in Disputes : rows'[d] = "in-progress" => rows[d] = "in-progress"
          /\ rows'[job[j].of] # "in-progress"
      BY <1>3, <1>6 DEF WriteOutcome, FinalStatus, DisputesTyped, Views
    <2> QED
      BY <1>1, <1>2, <1>3, <2>1, MovesOnlyItself, QuietKeepsChats DEF ChatsInv, TodoIsTerminal
  <1>7. CASE ReadForFinalize(j) \/ TimeOut(j) \/ CheckRow(j) \/ GuardUpdate(j)
    <2>1. job[j].at # "track" /\ chats' = chats /\ rows' = rows
      BY <1>7 DEF ReadForFinalize, TimeOut, CheckRow, GuardUpdate
    <2> QED
      BY <1>1, <1>2, <1>3, <2>1, MovesOnlyItself, QuietKeepsChats DEF ChatsInv, TodoIsTerminal
  <1> QED
    BY <1>4, <1>5, <1>6, <1>7

LEMMA SchedulerKeepsChats ==
  ASSUME DisputesInv, ChatsInv, EndsKept, SchedulerNext PROVE ChatsInv'
  <1>1. DisputesTyped /\ Told(todo) /\ Truthful(book)
    BY DEF DisputesInv, EventsTold, ViewsTruthful
  <1>2. job' = job /\ reloads' = reloads /\ mostro' = mostro
    BY DEF SchedulerNext, FetchAnswered, FetchFailed, FillBook, ListRows, AskFailed, EndTick,
       ApplyLive, AskAnswered, Hear, reconcile_one_admin_dispute_if_terminal, faults, daemon
  <1>3. TodoIsTerminal'
    BY DEF SchedulerNext, FetchAnswered, FetchFailed, FillBook, ListRows, AskFailed, EndTick,
       ApplyLive, AskAnswered, Hear, reconcile_one_admin_dispute_if_terminal, Terminal,
       ChatsInv, TodoIsTerminal
  <1>4. \/ UNCHANGED <<rows, chats>>
        \/ \E e \in todo : rows' = [rows EXCEPT ![e[1]] = e[2]] /\ chats' = chats \ {e[1]}
    BY DEF SchedulerNext, FetchAnswered, FetchFailed, FillBook, ListRows, AskFailed, EndTick,
       ApplyLive, AskAnswered, Hear, reconcile_one_admin_dispute_if_terminal
  <1>5. \A d \in Disputes : Taking(d) => Taking(d)'
    BY <1>2 DEF Taking
  <1>6. CASE UNCHANGED <<rows, chats>>
    BY <1>1, <1>2, <1>3, <1>5, <1>6, QuietKeepsChats DEF ChatsInv
  <1>7. ASSUME NEW e \in todo, rows' = [rows EXCEPT ![e[1]] = e[2]], chats' = chats \ {e[1]}
        PROVE  ChatsInv'
    <2>1. is_terminal_status(e[2]) /\ e[1] \in Disputes
      BY <1>1 DEF ChatsInv, TodoIsTerminal, DisputesTyped
    <2>2. e[2] # "in-progress"
      BY <2>1 DEF is_terminal_status, Outcomes
    <2> QED
      BY <1>1, <1>2, <1>3, <1>5, <1>7, <2>1, <2>2, QuietKeepsChats
      DEF ChatsInv, DisputesTyped, Views
  <1> QED
    BY <1>4, <1>6, <1>7

LEMMA ChatsInvStep == DisputesInv /\ ChatsInv /\ [Next]_vars => ChatsInv'
  <1> SUFFICES ASSUME DisputesInv, ChatsInv, [Next]_vars PROVE ChatsInv'
    OBVIOUS
  <1>1. EndsKept /\ DisputesTyped /\ Truthful(book)
    BY NextKeepsEnds DEF DisputesInv, ViewsTruthful
  <1>2. ASSUME UNCHANGED <<rows, chats, job, todo, reloads>> PROVE ChatsInv'
    <2>1. \A d \in Disputes : Taking(d) => Taking(d)'
      BY <1>2 DEF Taking
    <2> QED
      BY <1>1, <1>2, <2>1, QuietKeepsChats DEF ChatsInv, TodoIsTerminal
  <1>3. CASE MostroNext \/ UNCHANGED vars
    BY <1>2, <1>3 DEF MostroNext, CrowdOut, CloseUnasked, GrantTake, GrantFinalize,
       AlreadyCanceled, Refuse, Answer, task, faults, vars
  <1>4. CASE SolverNext
    <2>1. UNCHANGED <<rows, chats, todo, reloads>>
      BY <1>4 DEF SolverNext, StartTake, StartFinalize, task, faults
    <2>2. \A d \in Disputes : Taking(d) => Taking(d)'
      BY <1>1, <1>4 DEF SolverNext, StartTake, StartFinalize, Taking, DisputesTyped
    <2> QED
      BY <1>1, <2>1, <2>2, QuietKeepsChats DEF ChatsInv, TodoIsTerminal
  <1>5. ASSUME NEW r \in replies, Deliver(r) PROVE ChatsInv'
    <2>1. UNCHANGED <<rows, chats, todo, reloads>>
      BY <1>5 DEF Deliver, task, faults
    <2>2. \A d \in Disputes : Taking(d) => Taking(d)'
      BY <1>5 DEF Deliver, Taking
    <2> QED
      BY <1>1, <2>1, <2>2, QuietKeepsChats DEF ChatsInv, TodoIsTerminal
  <1>6. CASE MainNext
    <2>1. UNCHANGED <<rows, todo, reloads, job, book>>
      BY <1>6 DEF MainNext, ApplyNews, apply_terminal_relay_statuses_to_admin_disputes, task, faults
    <2>2. \A d \in Disputes : d \in chats /\ d \notin chats' => is_terminal_status(mostro[d])
      BY <1>1, <1>6 DEF MainNext, ApplyNews, apply_terminal_relay_statuses_to_admin_disputes,
         Closed, Truthful
    <2>3. \A d \in Disputes : Taking(d) => Taking(d)'
      BY <2>1 DEF Taking
    <2>4. \A d \in Disputes : is_terminal_status(mostro[d]) => is_terminal_status(mostro'[d])
      BY <1>1 DEF EndsKept
    <2> QED
      BY <1>1, <2>1, <2>2, <2>3, <2>4, QuietKeepsChats DEF ChatsInv, TodoIsTerminal
  <1>7. CASE Reload
    BY <1>7 DEF Reload, SchedulerStarts, ChatsInv, TodoIsTerminal, ChatsKept
  <1>8. CASE Crash
    BY <1>8 DEF Crash, SchedulerStarts, ChatsInv, TodoIsTerminal, ChatsKept, Open
  <1> QED
    BY <1>1, <1>3, <1>4, <1>5, <1>6, <1>7, <1>8, JobKeepsChats, SchedulerKeepsChats
    DEF Next, JobNext

\* A dispute the solver works on keeps its party chats until a reload.
THEOREM OpenDisputesHaveChats == Spec => []OpenDisputeHasChats
  <1>1. Init => ChatsInv
    BY DEF Init, ChatsInv, TodoIsTerminal, ChatsKept
  <1>2. DisputesInv /\ ChatsInv => OpenDisputeHasChats
    BY DEF ChatsInv, ChatsKept, OpenDisputeHasChats, WorkedOn, is_terminal_status, Outcomes
  <1> QED
    BY <1>1, <1>2, ChatsInvStep, DisputesInvariant, PTL DEF Spec

=============================================================================
