-------------------------------- MODULE Serve --------------------------------
(***************************************************************************)
(* One kb serve process after another over one library                     *)
(* (src/internal/server, src/cmd/kb/serve.go): requests that are handled   *)
(* side by side, the graceful stop with its grace of five seconds, and the *)
(* ways a request can lose its answer.  A write handler runs SetNote or    *)
(* RemoveNote: it looks at the head, and later moves the branch in one     *)
(* database call; what the other calls of a write do is modelled in        *)
(* BranchWriters.  The library is the sequence of those who moved its      *)
(* branch, and of a status code it matters whether the request was done:   *)
(* every other code refuses it, and stands for all the refusals a handler  *)
(* can give at that point.                                                 *)
(***************************************************************************)
EXTENDS Integers, Sequences

CONSTANTS
    Requests,     \* the requests clients may send, each once
    Cli,          \* the author of writes from the command line
    MaxCli,       \* bound: writes from the command line
    MaxStops,     \* bound: graceful stops
    MaxCrashes    \* bound: deaths and listener errors of the server

ASSUME RequestsAssumption == Cli \notin Requests

VARIABLES
    proc,     \* "down", "up", "draining" (Shutdown waits), "closed" (the store is), or
              \* "broken" (the store is closed since the listener failed)
    late,     \* whether the grace of this stop ran out
    hist,     \* who moved the branch, in order
    req,      \* the requests
    stops,    \* how many graceful stops there were
    crashes   \* how many crashes there were

serveVars == <<proc, late, hist, req, stops, crashes>>

\* A request: how far it is, whether it writes, how many heads there were when it was sent
\* (once it is answered, how many are newer), and what its handler has decided.
Request == [step : {"unsent", "refused", "accepted", "writing", "replying", "answered",
                    "left", "cut"},
            write : BOOLEAN, since : Int, done : BOOLEAN]

ToBeSent == [step |-> "unsent", write |-> FALSE, since |-> 0, done |-> FALSE]

\* The writes that have happened.
Written == {hist[i] : i \in 1..Len(hist)}

\* Which of them came from the command line.
FromCli == SelectSeq(hist, LAMBDA w : w = Cli)

InHandler(r) == req[r].step \in {"accepted", "writing", "replying"}

StoreOpen == proc \in {"up", "draining"}

ServeInit ==
    /\ proc = "up"
    /\ late = FALSE
    /\ hist = <<>>
    /\ req = [r \in Requests |-> ToBeSent]
    /\ stops = 0
    /\ crashes = 0

Replies(r, done) == req' = [req EXCEPT ![r].step = "replying", ![r].done = done]

-----------------------------------------------------------------------------
(* Requests and their handlers. *)

\* A client sends a request; only a server that is up takes it.
Send(r) ==
    /\ req[r].step = "unsent"
    /\ \E w \in BOOLEAN :
          req' = [req EXCEPT ![r].write = w,
                             ![r].since = IF w THEN 0 ELSE Len(hist),
                             ![r].step = IF proc = "up" THEN "accepted" ELSE "refused"]
    /\ UNCHANGED <<proc, late, hist, stops, crashes>>

\* A refusal before anything is read or written: the wrong method (405), no token or not
\* the right one (403, 401), a body, path, query or limit that does not do (400), no
\* embedding service (409).
Refuse(r) ==
    /\ req[r].step = "accepted"
    /\ Replies(r, FALSE)
    /\ UNCHANGED <<proc, late, hist, stops, crashes>>

\* The form that answers from a head it kept from an earlier request.
ReadKept(r) ==
    /\ req[r].step = "accepted"
    /\ ~ req[r].write
    /\ \E seen \in 0..Len(hist) :
          req' = [req EXCEPT ![r].step = "replying", ![r].done = TRUE,
                             ![r].since = seen - @]
    /\ UNCHANGED <<proc, late, hist, stops, crashes>>

\* A read handler answers from the head it finds; "since" becomes the number of heads that
\* are newer than the request.  It refuses for an unknown or ambiguous name (404, 400),
\* vectors that are missing or not of this model (409), or a store that fails (500).
Read(r) ==
    /\ req[r].step = "accepted"
    /\ ~ req[r].write
    /\ \/ /\ StoreOpen
          /\ req' = [req EXCEPT ![r].step = "replying", ![r].done = TRUE,
                                ![r].since = Len(hist) - @]
       \/ Replies(r, FALSE)
    /\ UNCHANGED <<proc, late, hist, stops, crashes>>

\* A write handler up to the tree it changes.  It refuses during a merge (500), for a note
\* that is not there (404) and for a path of the wrong type (400).
ReadForWrite(r) ==
    /\ req[r].step = "accepted"
    /\ req[r].write
    /\ \/ /\ StoreOpen
          /\ req' = [req EXCEPT ![r].step = "writing"]
       \/ Replies(r, FALSE)
    /\ UNCHANGED <<proc, late, hist, stops, crashes>>

\* The form that answers a write before the branch has moved.
LandUnwritten(r) ==
    /\ req[r].step = "writing"
    /\ StoreOpen
    /\ Replies(r, TRUE)
    /\ UNCHANGED <<proc, late, hist, stops, crashes>>

\* The branch moves: from here on the write has happened, answered or not.
Land(r) ==
    /\ req[r].step = "writing"
    /\ StoreOpen
    /\ hist' = Append(hist, r)
    /\ Replies(r, TRUE)
    /\ UNCHANGED <<proc, late, stops, crashes>>

\* Or it does not: another writer has the lock (503), or the call was cancelled by the
\* client's leaving or the store closed under the handler (500).
WriteFails(r) ==
    /\ req[r].step = "writing"
    /\ Replies(r, FALSE)
    /\ UNCHANGED <<proc, late, hist, stops, crashes>>

\* The answer is written.  Its client may be gone by now: calls of the store may have been
\* cancelled at that, and failed, or may have been through already.
Answer(r) ==
    /\ req[r].step = "replying"
    /\ \E s \in {"answered", "left"} : req' = [req EXCEPT ![r].step = s]
    /\ UNCHANGED <<proc, late, hist, stops, crashes>>

\* A write from the command line, at the same library.
CliWrite ==
    /\ Len(FromCli) < MaxCli
    /\ hist' = Append(hist, Cli)
    /\ UNCHANGED <<proc, late, req, stops, crashes>>

-----------------------------------------------------------------------------
(* The process. *)

\* What becomes of requests whose process is gone.
CutOff == [r \in Requests |-> IF InHandler(r) THEN [req[r] EXCEPT !.step = "cut"] ELSE req[r]]

\* startServe: the store is opened, then the listener.
Start ==
    /\ proc = "down"
    /\ proc' = "up"
    /\ late' = FALSE
    /\ UNCHANGED <<hist, req, stops, crashes>>

\* SIGINT, SIGTERM or the end of the context: the listener is closed, handlers go on.
Terminate ==
    /\ proc = "up"
    /\ stops < MaxStops
    /\ proc' = "draining"
    /\ stops' = stops + 1
    /\ UNCHANGED <<late, hist, req, crashes>>

\* The form that closes the store without waiting for the handlers.
DrainNothing ==
    /\ proc = "draining"
    /\ proc' = "closed"
    /\ UNCHANGED <<late, hist, req, stops, crashes>>

\* Shutdown returns when no handler is left, and the store is closed.
Drain ==
    /\ proc = "draining"
    /\ \A r \in Requests : ~ InHandler(r)
    /\ proc' = "closed"
    /\ UNCHANGED <<late, hist, req, stops, crashes>>

\* The form without a grace.
GraceForever == FALSE

\* Or the grace runs out while handlers are at work; the store is closed all the same.
GraceEnds ==
    /\ proc = "draining"
    /\ \E r \in Requests : InHandler(r)
    /\ proc' = "closed"
    /\ late' = TRUE
    /\ UNCHANGED <<hist, req, stops, crashes>>

\* wait returns and the process ends.
Exit ==
    /\ proc \in {"closed", "broken"}
    /\ proc' = "down"
    /\ req' = CutOff
    /\ UNCHANGED <<late, hist, stops, crashes>>

\* Serve fails by itself: the store is closed at once.
ListenerFails ==
    /\ proc = "up"
    /\ crashes < MaxCrashes
    /\ proc' = "broken"
    /\ crashes' = crashes + 1
    /\ UNCHANGED <<late, hist, req, stops>>

Crash ==
    /\ proc # "down"
    /\ crashes < MaxCrashes
    /\ proc' = "down"
    /\ req' = CutOff
    /\ crashes' = crashes + 1
    /\ UNCHANGED <<late, hist, stops>>

HandlerStep(r) ==
    \/ Refuse(r)
    \/ Read(r)
    \/ ReadForWrite(r)
    \/ Land(r)
    \/ WriteFails(r)
    \/ Answer(r)

StopStep == Drain \/ GraceEnds \/ Exit

ServeNext ==
    \/ \E r \in Requests : Send(r) \/ HandlerStep(r)
    \/ CliWrite
    \/ Start
    \/ Terminate
    \/ StopStep
    \/ ListenerFails
    \/ Crash

ServeSpec == ServeInit /\ [][ServeNext]_serveVars

-----------------------------------------------------------------------------
(* Properties *)

ServeTypeOK ==
    /\ proc \in {"down", "up", "draining", "closed", "broken"}
    /\ late \in BOOLEAN
    /\ hist \in Seq(Requests \cup {Cli})
    /\ req \in [Requests -> Request]
    /\ stops \in Nat /\ crashes \in Nat

\* Every answer to a write tells the truth, whatever overlaps it: after 201 and 200 the
\* write is in the history of the branch, after a refusal it never gets there ("no half
\* writes", docs/serve.md; failWrite).  Only a missing answer leaves both open.
AnswersTell ==
    \A r \in Requests :
        req[r].step = "answered" /\ req[r].write
            => req[r].done = (r \in Written)

\* A stop that has the time loses no answer: a request that was taken goes unanswered only
\* when its client left, the grace ran out or the server broke down (serveProc.wait).
StopLosesNothing ==
    [][\A r \in Requests :
          req'[r].step = "cut" /\ req[r].step # "cut"
              => late \/ proc = "broken" \/ crashes' > crashes]_serveVars

\* A read answers from a head that is no older than the request: it shows every write that
\* was answered before it was sent, by this server, the one before it, or the command line.
ReadsAreFresh ==
    \A r \in Requests :
        req[r].step = "answered" /\ ~ req[r].write /\ req[r].done => req[r].since >= 0
=============================================================================
