----------------------------- MODULE AudioInput -----------------------------
(***************************************************************************)
(* From the microphone to the voice detection: the stream callback and the *)
(* worker of each open stream (drivers/microphone.py), the reopening with  *)
(* another rate, and the detector that scores windows of a fixed length    *)
(* from blocks of another (drivers/speech_activity_detection.py).          *)
(*                                                                         *)
(* A sample is the number of its block and its place in it.  The queues    *)
(* drop their oldest block when they are full (workers.py).                *)
(***************************************************************************)
EXTENDS Integers, Sequences, FiniteSets

CONSTANTS Rates,      \* sample rates
          ModelRate,  \* the rate the model scores (16 kHz)
          BlockLen,   \* samples of a block (1024)
          Chunk,      \* samples of a window (512)
          MicQueue,   \* blocks the microphone's worker holds (64)
          VadQueue,   \* blocks the detector's subscription holds (64)
          MaxBlocks,  \* bound on captured blocks
          MaxReopens, \* bound on changes of the device or the rate
          MaxResets   \* bound on resets of the detector

VARIABLES mic,      \* the microphone instance
          stream,   \* a stream is open
          workers,  \* workers that live: the open stream's, and closed ones
          captured, \* the rate of each block captured so far
          late,     \* a worker did not end within its second
          inbox,    \* blocks at the detector
          vad,      \* rate last heard, leftover samples, block in on_data
          scored,   \* the samples of the last two windows
          reopens, resets

aVars == <<mic, stream, workers, captured, late, inbox, vad, scored, reopens, resets>>
micVars == <<mic, stream, workers, captured, late, reopens>>
vadVars == <<inbox, vad, scored, resets>>

None == "none"
NoBlock == [id |-> 0, rate |-> None]
Blocks == [id : 0..MaxBlocks, rate : Rates \cup {None}]
Samples == [block : 1..MaxBlocks, at : 1..BlockLen]
Idle == "idle"

AudioTypeOK ==
  /\ mic \in [state : {"running", "errored", "stopped"}, rate : Rates, previous : Rates,
              step : {Idle, "stop", "join", "open", "restore"}]
  /\ stream \in BOOLEAN
  /\ \A w \in workers : /\ w.rate \in Rates /\ w.closed \in BOOLEAN
                        /\ Len(w.queue) <= MicQueue /\ w.item \in Blocks
  /\ Len(captured) <= MaxBlocks /\ late \in BOOLEAN
  /\ Len(inbox) <= VadQueue /\ \A i \in DOMAIN inbox : inbox[i] \in Blocks
  /\ vad.rate \in Rates \cup {None} /\ vad.item \in Blocks /\ vad.checked \in BOOLEAN
  /\ Len(vad.pending) < Chunk /\ Len(scored) <= 2 * Chunk
  /\ \A i \in DOMAIN scored : scored[i] \in Samples
  /\ reopens \in 0..MaxReopens /\ resets \in 0..MaxResets

NewWorker(rate) == [rate |-> rate, queue |-> <<>>, item |-> NoBlock, closed |-> FALSE]

AudioInit ==
  /\ mic = [state |-> "running", rate |-> ModelRate, previous |-> ModelRate, step |-> Idle]
  /\ stream = TRUE /\ workers = {NewWorker(ModelRate)}
  /\ captured = <<>> /\ late = FALSE /\ inbox = <<>>
  /\ vad = [rate |-> None, pending |-> <<>>, item |-> NoBlock, checked |-> FALSE]
  /\ scored = <<>> /\ reopens = 0 /\ resets = 0

\* BoundedQueueWorker.offer: the oldest value makes room.
Offered(queue, value, size) ==
  Append(IF Len(queue) >= size THEN Tail(queue) ELSE queue, value)

Replace(w, v) == workers' = (workers \ {w}) \cup {v}

-----------------------------------------------------------------------------
(* The microphone                                                           *)

\* The stream's callback only copies the block into the worker's queue.
Callback ==
  /\ Len(captured) < MaxBlocks /\ mic.step \in {Idle, "stop"}
  /\ \E w \in workers :
       /\ ~w.closed
       /\ captured' = Append(captured, w.rate)
       /\ Replace(w, [w EXCEPT !.queue = Offered(w.queue, [id |-> Len(captured'), rate |-> w.rate],
                                                 MicQueue)])
  /\ UNCHANGED <<mic, stream, late, reopens, vadVars>>

\* The worker takes a block ...
Take ==
  /\ \E w \in workers :
       /\ w.item = NoBlock /\ w.queue # <<>> /\ ~w.closed
       /\ Replace(w, [w EXCEPT !.item = Head(w.queue), !.queue = Tail(w.queue)])
  /\ UNCHANGED <<mic, stream, captured, late, reopens, vadVars>>

\* Defect: the block is emitted with the rate the driver has by then.
Publish_CurrentRate ==
  /\ \E w \in workers :
       /\ w.item # NoBlock
       /\ inbox' = Offered(inbox, [w.item EXCEPT !.rate = mic.rate], VadQueue)
       /\ Replace(w, [w EXCEPT !.item = NoBlock])
  /\ UNCHANGED <<mic, stream, captured, late, reopens, vad, scored, resets>>

\* _publish: ... and emits it with the rate its stream was opened with.
Publish ==
  /\ \E w \in workers :
       /\ w.item # NoBlock
       /\ inbox' = Offered(inbox, [w.item EXCEPT !.rate = w.rate], VadQueue)
       /\ Replace(w, [w EXCEPT !.item = NoBlock])
  /\ UNCHANGED <<mic, stream, captured, late, reopens, vad, scored, resets>>

\* A closed worker's thread is over once its block is.
WorkerEnds ==
  /\ \E w \in workers : w.closed /\ w.item = NoBlock /\ workers' = workers \ {w}
  /\ UNCHANGED <<mic, stream, captured, late, reopens, vadVars>>

\* _reopen, by set_device or set_samplerate: closes first.
Reopen ==
  /\ mic.step = Idle /\ mic.state # "stopped" /\ reopens < MaxReopens /\ reopens' = reopens + 1
  /\ \E rate \in Rates :
       mic' = [mic EXCEPT !.step = "stop", !.previous = mic.rate, !.rate = rate]
  /\ UNCHANGED <<stream, workers, captured, late, vadVars>>

\* cleanup
StopMicrophone ==
  /\ mic.step = Idle /\ mic.state # "stopped"
  /\ mic' = [mic EXCEPT !.step = "stop", !.state = "stopped"]
  /\ UNCHANGED <<stream, workers, captured, late, reopens, vadVars>>

\* _close_stream: no callback after this; what the worker holds is dropped.
CloseStream ==
  /\ mic.step = "stop"
  /\ stream' = FALSE /\ mic' = [mic EXCEPT !.step = "join"]
  /\ workers' = {[w EXCEPT !.closed = TRUE, !.queue = <<>>] : w \in workers}
  /\ UNCHANGED <<captured, late, reopens, vadVars>>

\* join(1.0): the worker is over, or it is still in an emit after a second.
Joined ==
  /\ mic.step = "join"
  /\ late' = (late \/ workers # {})
  /\ mic' = [mic EXCEPT !.step = IF mic.state = "stopped" THEN Idle ELSE "open"]
  /\ UNCHANGED <<stream, workers, captured, reopens, vadVars>>

\* _open_stream
OpenStream ==
  /\ mic.step \in {"open", "restore"}
  /\ stream' = TRUE /\ workers' = workers \cup {NewWorker(mic.rate)}
  /\ mic' = [mic EXCEPT !.step = Idle]
  /\ UNCHANGED <<captured, late, reopens, vadVars>>

\* The open fails: the previous device and rate come back, or the driver is
\* errored.
OpenStreamFails ==
  /\ mic.step \in {"open", "restore"}
  /\ mic' = IF mic.step = "open"
            THEN [mic EXCEPT !.step = "restore", !.rate = mic.previous]
            ELSE [mic EXCEPT !.step = Idle, !.state = "errored"]
  /\ UNCHANGED <<stream, workers, captured, late, reopens, vadVars>>

-----------------------------------------------------------------------------
(* The detector: on_data on its worker, reset on its driver thread          *)

TakeBlock ==
  /\ inbox # <<>> /\ vad.item = NoBlock
  /\ vad' = [vad EXCEPT !.item = Head(inbox), !.checked = FALSE] /\ inbox' = Tail(inbox)
  /\ UNCHANGED <<micVars, scored, resets>>

\* Defect: the leftover of the old rate is kept.
CheckRate_KeepsLeftover ==
  /\ vad.item # NoBlock /\ ~vad.checked
  /\ vad' = [vad EXCEPT !.rate = vad.item.rate, !.checked = TRUE]
  /\ UNCHANGED <<micVars, inbox, scored, resets>>

\* A change of the rate resets the model; audio at another rate is skipped.
CheckRate ==
  /\ vad.item # NoBlock /\ ~vad.checked
  /\ vad' = [vad EXCEPT !.rate = vad.item.rate, !.checked = TRUE,
                        !.pending = IF vad.rate = vad.item.rate THEN @ ELSE <<>>]
  /\ UNCHANGED <<micVars, inbox, scored, resets>>

SamplesOf(b) == [i \in 1..BlockLen |-> [block |-> b, at |-> i]]

\* feed: scores every complete window and keeps the leftover.
Feed ==
  /\ vad.item # NoBlock /\ vad.checked
  /\ LET all == vad.pending \o SamplesOf(vad.item.id)
         complete == (Len(all) \div Chunk) * Chunk
         heard == scored \o SubSeq(all, 1, complete)
         kept == IF Len(heard) > 2 * Chunk THEN Len(heard) - 2 * Chunk ELSE 0
     IN IF vad.item.rate = ModelRate
        THEN /\ vad' = [vad EXCEPT !.item = NoBlock, !.pending = SubSeq(all, complete + 1, Len(all))]
             /\ scored' = SubSeq(heard, kept + 1, Len(heard))
        ELSE vad' = [vad EXCEPT !.item = NoBlock] /\ UNCHANGED scored
  /\ UNCHANGED <<micVars, inbox, resets>>

\* reset, by an app: the leftover goes.
ResetDetector ==
  /\ resets < MaxResets /\ resets' = resets + 1
  /\ vad' = [vad EXCEPT !.pending = <<>>]
  /\ UNCHANGED <<micVars, inbox, scored>>

AudioNext ==
  \/ Callback \/ Take \/ Publish \/ WorkerEnds \/ Reopen \/ StopMicrophone \/ CloseStream
  \/ Joined \/ OpenStream \/ OpenStreamFails
  \/ TakeBlock \/ CheckRate \/ Feed \/ ResetDetector

AudioSpec == AudioInit /\ [][AudioNext]_aVars

-----------------------------------------------------------------------------
Before(x, y) == x.block < y.block \/ (x.block = y.block /\ x.at < y.at)

\* What is scored was captured at the model's rate, whatever was reopened
\* while a block was on its way; every sample is scored at most once and in
\* the order it was captured, unless a worker outlived its stream; and no
\* leftover is kept once audio at another rate was heard.
ScoresAreOfOneStream ==
  /\ \A i \in DOMAIN scored : captured[scored[i].block] = ModelRate
  /\ late \/ \A i \in 1..(Len(scored) - 1) : Before(scored[i], scored[i + 1])
  /\ vad.pending # <<>> => vad.rate = ModelRate

\* A running microphone at rest has an open stream, and its worker takes the
\* blocks; without a stream no worker takes any.
OpenIsHeard ==
  /\ mic.step = Idle /\ mic.state = "running" => stream
  /\ Cardinality({w \in workers : ~w.closed}) = IF stream THEN 1 ELSE 0

AudioIsSound == ScoresAreOfOneStream /\ OpenIsHeard

\* What the code does not keep: a microphone that works again says so.
ErroredIsTrue == mic.step = Idle /\ mic.state = "errored" => ~stream
=============================================================================
