-------------------------------- MODULE Decoder --------------------------------
(***************************************************************************)
(* One decoder helper after another: `HelperDecoder' of                    *)
(* src/src/audio/decoder.rs.  A child process decodes from the position    *)
(* that was sought and writes frames into a pipe; a reader thread takes    *)
(* them apart and sends messages on a small channel; the audio worker      *)
(* polls that channel when it wants more, and shuts all of it down.        *)
(*                                                                         *)
(* A unit in the pipe is a field that the reader asks for, or one frame of *)
(* a block.  Samples are numbered by their place in the track.             *)
(***************************************************************************)
EXTENDS Integers, SequencesExt

CONSTANTS
  TrackFrames,    \* frames of the track
  PacketFrames,   \* the most frames of a packet
  BlockFrames,    \* MAX_PCM_BLOCK_SAMPLES
  ErrorLimit,     \* MAX_CONSECUTIVE_DECODE_ERRORS
  PipeUnits,      \* what the pipe holds
  Messages,       \* DECODER_MESSAGES
  Patience,       \* HELPER_NO_PROGRESS, in ticks
  Faults          \* "decode": bad packets; "crash", "hang": what may become of the helper

ASSUME DecoderAssumption ==
  /\ {TrackFrames, PacketFrames, BlockFrames, PipeUnits, Messages, Patience} \subseteq Nat \ {0}
  /\ ErrorLimit \in Nat
  /\ Faults \subseteq {"decode", "crash", "hang"}

VARIABLES
  wanted,         \* the position the track is to be decoded from
  helper,         \* the helper process
  pipe,           \* units on their way
  reader,         \* the reader thread
  quiet,          \* ticks of its current `poll' without output
  channel,        \* messages on their way to the worker
  worker,         \* "polling", "killing", "dropping" and "joining" in `shutdown', "done"
  outcome,        \* history: how the track ended for the worker, or "none"
  delivered,      \* history: the frames the worker was given
  lost            \* history: the frames of packets that could not be decoded

vars == <<wanted, helper, pipe, reader, quiet, channel, worker, outcome, delivered, lost>>
endVars == <<worker, outcome, delivered>>

NoTarget == -1
Unit(kind, value) == [kind |-> kind, value |-> value]
Lesser(m, n) == IF m <= n THEN m ELSE n

-----------------------------------------------------------------------------
(* The helper process. *)

Alive == helper.state \in {"decoding", "closing", "hung"}

(* `ProtocolSink::error', after which the helper exits. *)
SinkError == [helper EXCEPT !.out = Append(@, Unit("error", 0)), !.state = "closing"]

(* Mutant: the helper starts at the packet the seek came to. *)
SkipsNothing(start, frames) == 0

(* `seek_sample_offset': what the packet holds from before the target. *)
Skip(start, frames) ==
  IF helper.target > start THEN Lesser(helper.target - start, frames) ELSE 0

(* `ProtocolSink::samples' for each block of a packet. *)
Blocks(first, count) ==
  LET Size(block) == Lesser(BlockFrames, count - (block - 1) * BlockFrames)
      Block(block) ==
        <<Unit("length", Size(block))>> \o
        [i \in 1 .. Size(block) |-> Unit("frame", first + (block - 1) * BlockFrames + i - 1)]
  IN FlattenSeq([block \in 1 .. (count + BlockFrames - 1) \div BlockFrames |-> Block(block)])

(* `ProtocolSink::ready', once. *)
Header == IF helper.ready THEN <<>> ELSE <<Unit("ready", wanted)>>

Decoding == helper.state = "decoding" /\ helper.out = <<>>

HelperKept == UNCHANGED <<wanted, pipe, reader, quiet, channel, endVars>>

DecodePacket ==
  /\ Decoding
  /\ \E frames \in 1 .. Lesser(PacketFrames, TrackFrames - helper.next) :
       LET skip == Skip(helper.next, frames) IN
       helper' = [helper EXCEPT
                    !.errors = 0,
                    !.ready = TRUE,
                    !.target = IF skip < frames THEN NoTarget ELSE @,
                    !.next = @ + frames,
                    !.out = Header \o Blocks(helper.next + skip, frames - skip)]
  /\ UNCHANGED lost /\ HelperKept

Tolerated == helper.errors < ErrorLimit

(* A packet that does not decode is left out, but not too many in a row. *)
BadPacket ==
  /\ "decode" \in Faults
  /\ Decoding /\ helper.next < TrackFrames
  /\ IF Tolerated
     THEN \E frames \in 1 .. Lesser(PacketFrames, TrackFrames - helper.next) :
            /\ helper' = [helper EXCEPT !.errors = @ + 1, !.next = @ + frames]
            /\ lost' = lost \cup (helper.next .. helper.next + frames - 1)
     ELSE helper' = SinkError /\ UNCHANGED lost
  /\ HelperKept

(* Anything else that fails. *)
DecodeFails ==
  /\ "decode" \in Faults /\ Decoding
  /\ helper' = SinkError
  /\ UNCHANGED lost /\ HelperKept

(* No more packets: `ProtocolSink::finish', unless nothing at all was decoded. *)
EndOfTrack ==
  /\ Decoding /\ helper.next = TrackFrames
  /\ helper' = IF helper.ready
               THEN [helper EXCEPT !.out = <<Unit("end", 0)>>, !.state = "closing"]
               ELSE SinkError
  /\ UNCHANGED lost /\ HelperKept

(* The writes of the sink; without a reader they fail, and the helper exits. *)
WriteUnit ==
  /\ helper.state \in {"decoding", "closing"} /\ helper.out # <<>>
  /\ IF reader.step = "gone"
     THEN helper' = [helper EXCEPT !.state = "gone"] /\ UNCHANGED pipe
     ELSE /\ Len(pipe) < PipeUnits
          /\ pipe' = Append(pipe, Head(helper.out))
          /\ helper' = [helper EXCEPT !.out = Tail(@), !.idle = 0]
  /\ UNCHANGED <<wanted, reader, quiet, channel, endVars, lost>>

Exit ==
  /\ helper.state = "closing" /\ helper.out = <<>>
  /\ helper' = [helper EXCEPT !.state = "gone"]
  /\ UNCHANGED lost /\ HelperKept

Crash ==
  /\ "crash" \in Faults /\ Alive
  /\ helper' = [helper EXCEPT !.state = "gone"]
  /\ UNCHANGED lost /\ HelperKept

Hang ==
  /\ "hang" \in Faults
  /\ helper.state \in {"decoding", "closing"}
  /\ helper' = [helper EXCEPT !.state = "hung"]
  /\ UNCHANGED lost /\ HelperKept

-----------------------------------------------------------------------------
(* The reader thread, `read_protocol'. *)

Idle == [step |-> "reading", need |-> 0, got |-> <<>>, message |-> Unit("none", <<>>)]
Sending(kind, value) == [Idle EXCEPT !.step = "sending", !.message = Unit(kind, value)]

ReaderKept == UNCHANGED <<wanted, helper, channel, endVars, lost>>

(* Mutant: a block as a whole has to come in time. *)
OnlyFieldsProgress == IF Head(pipe).kind = "frame" THEN quiet ELSE 0

QuietAfterRead == 0

(* The next field, or the next piece of a block: either is progress. *)
ReadUnit ==
  /\ reader.step = "reading" /\ pipe # <<>>
  /\ pipe' = Tail(pipe)
  /\ quiet' = QuietAfterRead
  /\ LET unit == Head(pipe)
         got == Append(reader.got, unit.value)
     IN reader' =
          CASE unit.kind = "ready" -> Sending("Ready", <<>>)
            [] unit.kind = "end" -> Sending("End", <<>>)
            [] unit.kind = "error" -> Sending("Failed", "helper")
            [] unit.kind = "length" -> [reader EXCEPT !.need = unit.value]
            [] unit.kind = "frame" ->
                 IF reader.need = 1 THEN Sending("Samples", got)
                 ELSE [reader EXCEPT !.need = @ - 1, !.got = got]
  /\ ReaderKept

(* Mutant: a read of nothing is tried again. *)
NeverEarly == FALSE

EndedEarly == helper.state = "gone"

ReadEnd ==
  /\ reader.step = "reading" /\ pipe = <<>>
  /\ EndedEarly
  /\ reader' = Sending("Failed", "ended")
  /\ UNCHANGED <<pipe, quiet>> /\ ReaderKept

(* `poll' returns at once for a helper that has exited. *)
TimeOut ==
  /\ reader.step = "reading" /\ pipe = <<>> /\ helper.state # "gone"
  /\ quiet = Patience
  /\ reader' = Sending("Failed", "stalled")
  /\ UNCHANGED <<pipe, quiet>> /\ ReaderKept

(* The worker still has its end of the channel. *)
Listening == worker \in {"polling", "killing", "dropping"}

(* `send' waits for room; when the worker has gone the thread ends. *)
Send ==
  /\ reader.step = "sending"
  /\ IF Listening
     THEN /\ Len(channel) < Messages
          /\ channel' = Append(channel, reader.message)
          /\ reader' = IF reader.message.kind \in {"End", "Failed"}
                       THEN [Idle EXCEPT !.step = "gone"] ELSE Idle
     ELSE UNCHANGED channel /\ reader' = [Idle EXCEPT !.step = "gone"]
  /\ quiet' = 0
  /\ UNCHANGED <<wanted, helper, pipe, endVars, lost>>

-----------------------------------------------------------------------------
(* The audio worker. *)

WorkerKept == UNCHANGED <<wanted, helper, pipe, reader, quiet, lost>>

(* `poll', when the worker has room for more. *)
Poll ==
  /\ worker = "polling" /\ outcome = "none"
  /\ \/ /\ channel # <<>>
        /\ LET message == Head(channel) IN
           /\ delivered' = IF message.kind = "Samples" THEN delivered \o message.value
                           ELSE delivered
           /\ outcome' = IF message.kind \in {"End", "Failed"} THEN message.kind ELSE outcome
        /\ channel' = Tail(channel)
     \/ /\ channel = <<>> /\ reader.step = "gone"
        /\ outcome' = "Failed"
        /\ UNCHANGED <<channel, delivered>>
  /\ UNCHANGED worker /\ WorkerKept

(* `shutdown' begins for whatever reason, at the latest after the outcome. *)
Shutdown ==
  /\ worker = "polling"
  /\ worker' = "killing"
  /\ UNCHANGED <<channel, outcome, delivered>> /\ WorkerKept

(* The helper is killed and reaped ... *)
Kill ==
  /\ worker = "killing"
  /\ worker' = "dropping"
  /\ helper' = [helper EXCEPT !.state = "gone"]
  /\ UNCHANGED <<wanted, pipe, reader, quiet, channel, outcome, delivered, lost>>

(* ... the receiver is dropped, which lets a reader go that waits to send ... *)
DropMessages ==
  /\ worker = "dropping"
  /\ worker' = "joining"
  /\ channel' = <<>>
  /\ UNCHANGED <<outcome, delivered>> /\ WorkerKept

(* ... and the reader is joined. *)
Join ==
  /\ worker = "joining" /\ reader.step = "gone"
  /\ worker' = "done"
  /\ UNCHANGED <<channel, outcome, delivered>> /\ WorkerKept

NewHelper(position, start) ==
  [state |-> "decoding", next |-> start, target |-> IF position = 0 THEN NoTarget ELSE position,
   errors |-> 0, ready |-> FALSE, out |-> <<>>, idle |-> 0]

(* `start' for another track or position; an accurate seek comes to a packet
   that begins at or before its target. *)
Start ==
  /\ worker = "done"
  /\ wanted' \in 0 .. TrackFrames
  /\ \E start \in 0 .. wanted' : helper' = NewHelper(wanted', start)
  /\ pipe' = <<>> /\ channel' = <<>> /\ reader' = Idle /\ quiet' = 0
  /\ worker' = "polling"
  /\ outcome' = "none" /\ delivered' = <<>> /\ lost' = {}

(* Time passes for a `poll' without output.  A helper that has room to write and
   does not hang writes within HELPER_NO_PROGRESS. *)
Tick ==
  /\ quiet' = IF reader.step = "reading" /\ pipe = <<>> /\ quiet < Patience
              THEN quiet + 1 ELSE quiet
  /\ IF helper.state \in {"decoding", "closing"} /\ Len(pipe) < PipeUnits
     THEN helper.idle + 1 < Patience /\ helper' = [helper EXCEPT !.idle = @ + 1]
     ELSE UNCHANGED helper
  /\ UNCHANGED <<wanted, pipe, reader, channel, endVars, lost>>

-----------------------------------------------------------------------------
Init ==
  /\ wanted \in 0 .. TrackFrames
  /\ \E start \in 0 .. wanted : helper = NewHelper(wanted, start)
  /\ pipe = <<>> /\ channel = <<>> /\ reader = Idle /\ quiet = 0
  /\ worker = "polling"
  /\ outcome = "none" /\ delivered = <<>> /\ lost = {}

HelperStep ==
  DecodePacket \/ BadPacket \/ DecodeFails \/ EndOfTrack \/ WriteUnit \/ Exit
HelperFault == Crash \/ Hang
ReaderStep == ReadUnit \/ ReadEnd \/ TimeOut \/ Send
ShutdownStep == Kill \/ DropMessages \/ Join

Next ==
  \/ HelperStep \/ HelperFault \/ ReaderStep
  \/ Poll \/ Shutdown \/ ShutdownStep \/ Start \/ Tick

Spec == Init /\ [][Next]_vars

(* Processes and threads that can run do, and the worker does not stop half way
   through `shutdown'; whether it polls depends on the listener. *)
Fairness ==
  WF_vars(HelperStep) /\ WF_vars(ReaderStep) /\ WF_vars(ShutdownStep) /\ WF_vars(Tick)

FairSpec == Spec /\ Fairness

-----------------------------------------------------------------------------
Given == {delivered[i] : i \in DOMAIN delivered}

(* The worker gets the track from the position it asked for, in order and
   without a gap but for the packets that did not decode, wherever the seek came
   to and however the packets were cut into blocks; and when it is told that
   this was all, it was. *)
SamplesExact ==
  /\ \A i \in 1 .. Len(delivered) - 1 : delivered[i] < delivered[i + 1]
  /\ Given \subseteq (wanted .. TrackFrames - 1) \ lost
  /\ \A frame \in wanted .. TrackFrames - 1 :
       outcome = "End" \/ (delivered # <<>> /\ frame <= Last(delivered))
         => frame \in Given \cup lost

(* Only a helper that hangs is stopped for making no progress, and not one that
   is slow or waits for a worker that does not poll because of a pause. *)
TimeoutJustified ==
  reader.message = Unit("Failed", "stalled") /\ Alive => helper.state = "hung"

(* A worker that keeps polling learns how the track ends, also from a helper that
   dies or hangs in the middle of a block.  Shutting down ends as well, whatever
   the helper does and although the reader may be waiting to send. *)
HelperSettles ==
  /\ WF_vars(Poll) => ((worker = "polling") ~> (outcome # "none" \/ worker # "polling"))
  /\ (worker = "killing") ~> (worker = "done")

===============================================================================
