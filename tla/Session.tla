------------------------------- MODULE Session --------------------------------
(* One session of the GUI: the event loop (ui/model.go, sdlui/run.go), the     *)
(* goroutine that runs an operation (Model.start, Service.Execute), the channel*)
(* between them, and the game-list reload that main asks for after the user    *)
(* quits (Service.FlushGameListRefresh).                                       *)
(*                                                                             *)
(* The user may quit at any moment; the process ends when main returns, and    *)
(* with it a goroutine that is still running. Simplifications. What an         *)
(* operation does to a package is left out; what counts here is where the      *)
(* goroutine is, the open transaction included, and where it sends. A failure  *)
(* leads to the same place from anywhere in a phase. Focus and selection are   *)
(* left out: the user can confirm some action whenever the model is not busy.  *)

EXTENDS Naturals, Sequences

CONSTANT None \* nobody holds the mutex

ASSUME SessionAssumption == None \notin {"worker", "main"}

VARIABLES
  ui,         \* run: in the event loop. quit: main waits for the mutex.
              \* flush: it has it. leave: it has let go. exited: the process ended.
  busy,       \* Model.Busy
  events,     \* Model.events, a channel of capacity 1
  worker,     \* where the goroutine is: see Worker
  then,       \* where it goes on after the progress message it is sending
  cancelled,  \* the context of the operations is cancelled
  mutex,      \* Service.operationMu
  pending,    \* Service.refreshPending
  changed,    \* outcome.GameListChanged, in the goroutine
  unreloaded  \* history: a reported menu change no reload was asked for since

uiVars     == <<ui, busy, cancelled>>
workerVars == <<worker, then>>
flushVars  == <<mutex, pending, changed, unreloaded>>
vars == <<uiVars, events, workerVars, flushVars>>

\* start: not scheduled yet. check: in Service.item. apply: the action is announced.
\* stage: in Manager.stage. commit: in Manager.commit, which sends progress while its
\* transaction is open. silent: in a transaction that sends none (Manager.uninstall,
\* UpdateStore). record: after it. unlock, items, done: Execute is over. A message is
\* sent in up to three steps: try, drain, send.
Sending == worker \in {"try", "drain", "send"}

Worker == {"none", "start", "check", "apply", "stage", "commit", "silent", "record",
           "complete", "try", "drain", "send", "unlock", "items", "done"}

Executing == worker \in Worker \ {"none", "start", "items", "done"}

TypeOK == /\ ui \in {"run", "quit", "flush", "leave", "exited"}
          /\ busy \in BOOLEAN
          /\ events \in {<<>>, <<"progress">>, <<"done">>}
          /\ worker \in Worker /\ then \in {"apply", "stage", "commit", "unlock"}
          /\ cancelled \in BOOLEAN
          /\ mutex \in {None, "worker", "main"}
          /\ mutex = "worker" <=> Executing
          /\ pending \in BOOLEAN /\ changed \in BOOLEAN /\ unreloaded \in BOOLEAN

Init == /\ ui = "run" /\ busy = FALSE /\ cancelled = FALSE
        /\ events = <<>>
        /\ worker = "none" /\ then = "stage"
        /\ mutex = None /\ pending = FALSE /\ changed = FALSE /\ unreloaded = FALSE

-----------------------------------------------------------------------------
(* The event loop.                                                             *)

\* Model.start, from Select on a confirmation screen.
Start == /\ ui = "run" /\ ~busy
         /\ busy' = TRUE /\ worker' = "start"
         /\ UNCHANGED <<ui, cancelled, events, then, flushVars>>

\* Mutant of Poll: any event ends the operation.
PollAnyEnds == /\ ui = "run" /\ events # <<>>
               /\ events' = Tail(events)
               /\ busy' = FALSE
               /\ UNCHANGED <<ui, cancelled, workerVars, flushVars>>

\* Model.Poll takes what is in the channel.
Poll == /\ ui = "run" /\ events # <<>>
        /\ events' = Tail(events)
        /\ busy' = (busy /\ Head(events) # "done")
        /\ UNCHANGED <<ui, cancelled, workerVars, flushVars>>

\* The quit chord, the window's close button, or an error of the renderer: Run
\* returns and its deferred cancel runs.
Quit == /\ ui = "run"
        /\ ui' = "quit" /\ cancelled' = TRUE
        /\ UNCHANGED <<busy, events, workerVars, flushVars>>

-----------------------------------------------------------------------------
(* FlushGameListRefresh, on the way out.                                       *)

\* Mutant of FlushLock: main does not wait for the operation in flight.
FlushAtOnce == /\ ui = "quit"
               /\ ui' = "flush" /\ mutex' = "main"
               /\ UNCHANGED <<busy, cancelled, events, workerVars, pending, changed, unreloaded>>

FlushLock == /\ ui = "quit" /\ mutex = None
             /\ ui' = "flush" /\ mutex' = "main"
             /\ UNCHANGED <<busy, cancelled, events, workerVars, pending, changed, unreloaded>>

\* The reload is asked for once; that it was refused is main's error.
Flush == /\ ui = "flush"
         /\ ui' = "leave" /\ mutex' = None
         /\ pending' = FALSE
         /\ unreloaded' = (unreloaded /\ ~pending)
         /\ UNCHANGED <<busy, cancelled, events, workerVars, changed>>

Exit == /\ ui = "leave"
        /\ ui' = "exited"
        /\ UNCHANGED <<busy, cancelled, events, workerVars, flushVars>>

-----------------------------------------------------------------------------
(* The goroutine.                                                              *)

Running(where) == ui # "exited" /\ worker = where

Lock == /\ Running("start") /\ mutex = None
        /\ mutex' = "worker"
        /\ worker' = "check" /\ changed' = FALSE
        /\ UNCHANGED <<uiVars, events, then, pending, unreloaded>>

\* Mutant of Check: a cancelled context is not looked at.
CheckNothing == /\ Running("check")
                /\ \/ worker' = "try" /\ then' \in {"apply", "stage"}
                   \/ worker' = "unlock" /\ UNCHANGED then
                /\ UNCHANGED <<uiVars, events, flushVars>>

\* Every action is announced before anything is done. Service.item fails under a
\* cancelled context; executeStore does not look at it. Or the action is refused.
Check == /\ Running("check")
         /\ \/ worker' = "try" /\ then' = "apply" /\ ~cancelled
            \/ worker' = "try" /\ then' = "stage"
            \/ worker' = "unlock" /\ UNCHANGED then
         /\ UNCHANGED <<uiVars, events, flushVars>>

\* The record of the operation is written, or cannot be. An uninstall has nothing
\* to stage.
Apply == /\ Running("apply")
         /\ worker' \in {"stage", "silent", "unlock"}
         /\ UNCHANGED <<uiVars, events, then, flushVars>>

\* Download and extraction stop when the context is cancelled, or fail by themselves;
\* a look for a Store update ends here too.
Staged == /\ Running("stage") /\ ~cancelled
          /\ worker' \in {"commit", "silent"}
          /\ UNCHANGED <<uiVars, events, then, flushVars>>

StageFails == /\ Running("stage")
              /\ worker' = "unlock"
              /\ UNCHANGED <<uiVars, events, then, flushVars>>

\* The transaction commits or is rolled back, after any number of messages. Nothing
\* looks at the context here.
\* A Transaction.Commit that fails after its journal says committed returns no
\* outcome (outcome of Transaction.tla): its menu change is not in this module.
Commit(menu) == /\ Running("commit") \/ Running("silent")
                /\ \/ /\ worker' = "record"
                      /\ changed' = menu /\ unreloaded' = (unreloaded \/ menu)
                   \/ worker' = "unlock" /\ UNCHANGED <<changed, unreloaded>>
                /\ UNCHANGED <<uiVars, events, then, mutex, pending>>

\* Mutant of Record: the change is noted only when the bookkeeping went well.
RecordLate == /\ Running("record")
              /\ \/ worker' = "complete" /\ pending' = (pending \/ changed)
                 \/ worker' = "unlock" /\ UNCHANGED pending
              /\ UNCHANGED <<uiVars, events, then, mutex, changed, unreloaded>>

\* refreshPending is set first; then ClearLifecycle may fail.
Record == /\ Running("record")
          /\ worker' \in {"complete", "unlock"}
          /\ pending' = (pending \/ changed)
          /\ UNCHANGED <<uiVars, events, then, mutex, changed, unreloaded>>

\* Progress: any number of messages while staging and within the open transaction,
\* and the completion.
Report == /\ \/ \E now \in {"stage", "commit"} : Running(now) /\ then' = now
             \/ Running("complete") /\ then' = "unlock"
          /\ worker' = "try"
          /\ UNCHANGED <<uiVars, events, flushVars>>

\* Mutant of TrySend: a full channel is waited for.
TrySendBlocks == /\ Running("try")
                 /\ IF events = <<>>
                    THEN events' = <<"progress">> /\ worker' = then
                    ELSE worker' = "send" /\ UNCHANGED events
                 /\ UNCHANGED <<uiVars, then, flushVars>>

\* select with a default; a full channel is drained first.
TrySend == /\ Running("try")
           /\ IF events = <<>>
              THEN events' = <<"progress">> /\ worker' = then
              ELSE worker' = "drain" /\ UNCHANGED events
           /\ UNCHANGED <<uiVars, then, flushVars>>

\* Poll may have emptied it in between.
Drain == /\ Running("drain")
         /\ events' = IF events = <<>> THEN <<>> ELSE Tail(events)
         /\ worker' = "send"
         /\ UNCHANGED <<uiVars, then, flushVars>>

\* A plain send, which blocks on a full channel.
Send == /\ Running("send") /\ events = <<>>
        /\ events' = <<"progress">> /\ worker' = then
        /\ UNCHANGED <<uiVars, then, flushVars>>

Unlock == /\ Running("unlock")
          /\ mutex' = None
          /\ worker' = "items"
          /\ UNCHANGED <<uiVars, events, then, pending, changed, unreloaded>>

\* Backend.Items, without the mutex.
Items == /\ Running("items")
         /\ worker' = "done"
         /\ UNCHANGED <<uiVars, events, then, flushVars>>

\* Mutant of Done: like progress, the result is dropped when the channel is full.
DoneOrNot == /\ Running("done")
             /\ worker' = "none"
             /\ events' = IF events = <<>> THEN <<"done">> ELSE events
             /\ UNCHANGED <<uiVars, then, flushVars>>

\* Mutant of Done: the result is put into the channel without waiting.
DoneAtOnce == /\ Running("done")
              /\ worker' = "none"
              /\ events' = Append(events, "done")
              /\ UNCHANGED <<uiVars, then, flushVars>>

\* The result waits for room in the channel, or for the session to end.
Done == /\ Running("done")
        /\ worker' = "none"
        /\ \/ events = <<>> /\ events' = <<"done">>
           \/ cancelled /\ UNCHANGED events
        /\ UNCHANGED <<uiVars, then, flushVars>>

-----------------------------------------------------------------------------
Loop == Start \/ Poll \/ Quit

Leave == FlushLock \/ Flush \/ Exit

PhaseEnds == Staged \/ StageFails \/ \E menu \in BOOLEAN : Commit(menu)

Work == \/ Lock \/ Check \/ Apply \/ PhaseEnds \/ Record \/ Report
        \/ TrySend \/ Drain \/ Send \/ Unlock \/ Items \/ Done

Next == Loop \/ Leave \/ Work

Spec == Init /\ [][Next]_vars

\* The scheduler runs both threads, the mutex is handed to whoever keeps waiting for
\* it (sync.Mutex does not starve), and a download and a list of files are reported on
\* finitely often. What makes the loop poll is in EventLoop.tla; nothing makes the user
\* start or quit.
WorkFairness == /\ SF_vars(FlushLock) /\ WF_vars(Flush) /\ WF_vars(Exit)
                /\ SF_vars(Lock) /\ WF_vars(Work)
                /\ SF_vars(PhaseEnds)

-----------------------------------------------------------------------------
(* Properties.                                                                 *)

\* When the model takes input again the goroutine is gone: a second operation never
\* overlaps the first, and the channel has one writer ("Only this worker writes
\* events").
NoOverlap == ~busy => worker = "none" /\ "done" \notin {events[i] : i \in DOMAIN events}

\* The result of an operation is never lost to a progress message or a full
\* channel: as long as the session lasts, the model becomes usable again.
BusyEnds == busy ~> ~busy \/ ui # "run"

\* The goroutine is between Begin and Commit, sending to the loop or not, or a
\* committed change is not noted yet.
MidTransaction == \/ worker \in {"commit", "silent", "record"}
                  \/ Sending /\ then = "commit"

\* However the user quits, the process ends neither in the middle of a transaction
\* nor before every menu change that an outcome reported has had its reload request
\* ("waits for an in-flight operation, then requests at most one reload for this
\* session").
ExitIsClean == ui = "exited" => ~MidTransaction /\ ~unreloaded
=============================================================================
