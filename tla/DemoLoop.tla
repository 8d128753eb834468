------------------------------ MODULE DemoLoop ------------------------------
(***************************************************************************)
(* `clickdoom native demo` over the simulation's own output                *)
(* (driver/src/cli/native/demo.rs, play_sim): a feeder that runs the demo's *)
(* tics as fast as the simulation statement takes them, and a paced loop   *)
(* that draws one frame at a time, joined by a bounded channel and a        *)
(* counter of the highest tic committed.  Both are futures of one task, so *)
(* a step of either runs from one await to the next.  The simulation       *)
(* itself is a statement on the server that writes native_state on its own. *)
(***************************************************************************)
EXTENDS Naturals, Sequences

CONSTANTS
    Lookahead,     \* --lookahead
    MeltFrames,    \* frames the opening melt takes
    LastTic,       \* bound: the last tic the simulation may play
    Endings,       \* what else than played a tic's row may say
    StopAtFrame,   \* --stop-at-frame
    MayClose       \* whether there is a window that may be closed

ASSUME DemoConstants ==
    /\ Lookahead \in Nat /\ MeltFrames \in Nat /\ LastTic \in Nat /\ StopAtFrame \in Nat
    /\ Endings \subseteq {"Refused", "DemoEnded"} /\ MayClose \in BOOLEAN

VARIABLES
    native_state,  \* what the row of each tic the simulation has committed says
    fed,           \* the last tic the simulation statement was sent
    feeder,        \* "feeding", "waiting" (for a row), "sending" (for room) or "ended"
    tic,           \* the tic the feeder is on
    pending,       \* what it is blocked sending
    channel, receiving,  \* the mpsc channel, and whether its receiver is alive
    highest,       \* the highest tic committed, stored before the send
    drawer,        \* "start", "recv", "draw" or "done"
    frame,         \* the frame it is on
    counted,       \* run.counters.tics
    outcome

feeding == <<feeder, tic, pending>>
drawing == <<drawer, frame, counted, outcome>>
server == <<native_state, fed>>
vars == <<server, feeding, channel, receiving, highest, drawing>>

Message == [is : {"Committed", "Refused", "DemoEnded", "Failed"}, tic : 1 .. LastTic + 1]

\* mpsc::channel takes no zero.
Capacity == IF Lookahead > 1 THEN Lookahead ELSE 1

\* schedule::sim_tic: the tic a frame draws, behind the melt and the two tics
\* the melt hides.
SimTic(f) == IF f < MeltFrames THEN 2 ELSE f - MeltFrames + 3

\* restart_sim has emptied native_state.
Init ==
    /\ native_state = << >> /\ fed = 0
    /\ feeder = "feeding" /\ tic = 1 /\ pending = << >>
    /\ channel = << >> /\ receiving = TRUE /\ highest = 0
    /\ drawer = "start" /\ frame = 0 /\ counted = 0 /\ outcome = "none"

-----------------------------------------------------------------------------
(* The simulation, and feed_ahead. *)

\* The statement writes the row of the next tic it was sent, if it ever does.
Simulate ==
    /\ Len(native_state) < fed
    /\ \E row \in Endings \cup (IF fed <= LastTic THEN {"Played"} ELSE {}) :
          native_state' = Append(native_state, row)
    /\ UNCHANGED <<fed, feeding, channel, receiving, highest, drawing>>

\* A send that finds room always.
SendUnbounded(m) ==
    /\ channel' = Append(channel, m) /\ pending' = << >>
    /\ feeder' = IF m.is = "Committed" THEN "feeding" ELSE "ended"
    /\ tic' = IF m.is = "Committed" THEN tic + 1 ELSE tic

\* tx.send(m).await: into the channel, or wait for room, or find nobody there.
Send(m) ==
    \/ /\ receiving /\ Len(channel) < Capacity
       /\ channel' = Append(channel, m) /\ pending' = << >>
       /\ feeder' = IF m.is = "Committed" THEN "feeding" ELSE "ended"
       /\ tic' = IF m.is = "Committed" THEN tic + 1 ELSE tic
    \/ /\ receiving /\ Len(channel) = Capacity
       /\ feeder' = "sending" /\ pending' = <<m>>
       /\ UNCHANGED <<channel, tic>>
    \/ /\ ~ receiving
       /\ feeder' = "ended" /\ pending' = << >>
       /\ UNCHANGED <<channel, tic>>

\* feed_sim: the tic's input row goes to the statement, or cannot be sent.
FeedSim ==
    /\ feeder = "feeding"
    /\ \/ /\ fed' = tic /\ feeder' = "waiting"
          /\ UNCHANGED <<tic, pending, channel>>
       \/ Send([is |-> "Failed", tic |-> tic]) /\ UNCHANGED fed
    /\ UNCHANGED <<native_state, receiving, highest, drawing>>

\* A feeder that returns without saying why it stopped.
WaitSimSilentEnd ==
    /\ feeder = "waiting" /\ tic <= Len(native_state)
    /\ \/ /\ native_state[tic] = "Played"
          /\ highest' = tic /\ Send([is |-> "Committed", tic |-> tic])
       \/ /\ native_state[tic] # "Played"
          /\ feeder' = "ended" /\ UNCHANGED <<highest, tic, pending, channel>>
    /\ UNCHANGED <<server, receiving, drawing>>

\* A feeder that stores the tic before it looks at what the row says.
WaitSimStoresFirst ==
    /\ feeder = "waiting" /\ tic <= Len(native_state)
    /\ highest' = tic
    /\ Send([is |-> IF native_state[tic] = "Played" THEN "Committed" ELSE native_state[tic],
             tic |-> tic])
    /\ UNCHANGED <<server, receiving, drawing>>

\* wait_sim found the row: a refusal or the demo's end stops the feeder, a
\* played tic is stored and then sent.
WaitSim ==
    /\ feeder = "waiting" /\ tic <= Len(native_state)
    /\ \/ /\ native_state[tic] = "Played"
          /\ highest' = tic /\ Send([is |-> "Committed", tic |-> tic])
       \/ /\ native_state[tic] # "Played"
          /\ Send([is |-> native_state[tic], tic |-> tic]) /\ UNCHANGED highest
    /\ UNCHANGED <<server, receiving, drawing>>

\* wait_sim timed out or could not read, whether or not the row is there.
WaitSimFails ==
    /\ feeder = "waiting"
    /\ Send([is |-> "Failed", tic |-> tic])
    /\ UNCHANGED <<server, receiving, highest, drawing>>

\* A blocked send finds room, or finds the receiver dropped.
SendPending ==
    /\ feeder = "sending"
    /\ ~ receiving \/ Len(channel) < Capacity
    /\ Send(pending[1])
    /\ UNCHANGED <<server, receiving, highest, drawing>>

-----------------------------------------------------------------------------
(* drawing_loop. *)

IsStop(m) == m.is # "Committed"
Stops(messages) == {j \in DOMAIN messages : IsStop(messages[j])}

\* How many committed tics a drain finds: the ones ahead of a stop.
Credited(messages) == Len(messages) - (IF Stops(messages) = {} THEN 0 ELSE 1)

\* The loop is over and the receiver still open.
KeepReceiver(how) ==
    /\ drawer' = "done" /\ outcome' = how
    /\ UNCHANGED <<channel, receiving>>

\* The drawing future returns; play_sim drops the receiver with it.
Done(how) ==
    /\ drawer' = "done" /\ outcome' = how
    /\ channel' = << >> /\ receiving' = FALSE

\* A stop reached the loop: the demo's end is a clean finish, and its closing
\* drain finds nothing behind the stop.
StoppedBy(m) == Done(IF m.is = "DemoEnded" THEN "Played" ELSE m.is)

\* advance_to up to its await, with n tics credited: drain whatever is ready,
\* then see whether frame f's tic is there.  committed counts a tic and then
\* writes its line, which may fail.
AdvanceTo(f, messages, n) ==
    \/ \E j \in 1 .. Credited(messages) : counted' = n + j /\ Done("Failed")
    \/ /\ counted' = n + Credited(messages)
       /\ \/ \E j \in Stops(messages) : StoppedBy(messages[j])
          \/ /\ Stops(messages) = {} /\ feeder = "ended"
             /\ Done("NoResult")
          \/ /\ Stops(messages) = {} /\ feeder # "ended"
             /\ channel' = << >>
             /\ drawer' = IF highest >= SimTic(f) THEN "draw" ELSE "recv"
             /\ UNCHANGED <<receiving, outcome>>

\* The loop comes to frame 0.
Begin ==
    /\ drawer = "start"
    /\ AdvanceTo(frame, channel, counted)
    /\ UNCHANGED <<server, feeding, highest, frame>>

\* A receive that drops the tic it waited for.
ReceiveUncredited ==
    /\ drawer = "recv" /\ channel # << >>
    /\ LET m == Head(channel) IN
       \/ IsStop(m) /\ StoppedBy(m) /\ UNCHANGED counted
       \/ ~ IsStop(m) /\ AdvanceTo(frame, Tail(channel), counted)
    /\ UNCHANGED <<server, feeding, highest, frame>>

\* rx.recv() returns: a stop, the end of a feeder that left none, or a tic,
\* which is counted, written, and followed by the next turn of advance_to.
Receive ==
    /\ drawer = "recv"
    /\ \/ /\ channel = << >> /\ feeder = "ended"
          /\ Done("NoResult") /\ UNCHANGED counted
       \/ /\ channel # << >> /\ IsStop(Head(channel))
          /\ StoppedBy(Head(channel)) /\ UNCHANGED counted
       \/ /\ channel # << >> /\ ~ IsStop(Head(channel))
          /\ \/ counted' = counted + 1 /\ Done("Failed")
             \/ AdvanceTo(frame, Tail(channel), counted + 1)
    /\ UNCHANGED <<server, feeding, highest, frame>>

\* poll_frame reads a refusal off the row of the frame's own tic; a row that
\* is not there refuses nothing.
FrameRefused == SimTic(frame) \in DOMAIN native_state /\ native_state[SimTic(frame)] = "Refused"

\* The pace's sleep and draw_sim are through: on to the next frame, or the end
\* of the loop at --stop-at-frame or a closed window.  The closing drain
\* credits what is in the channel, up to a line it cannot write, and drops the
\* stop it may find there.
Draw ==
    /\ drawer = "draw" /\ ~ FrameRefused
    /\ \/ /\ frame < StopAtFrame
          /\ frame' = frame + 1
          /\ AdvanceTo(frame + 1, channel, counted)
       \/ /\ frame >= StopAtFrame \/ (MayClose /\ frame > 0)
          /\ \E j \in {Credited(channel)} \cup 1 .. Credited(channel) : counted' = counted + j
          /\ Done("Played") /\ UNCHANGED frame
    /\ UNCHANGED <<server, feeding, highest>>

\* draw_sim returns early: its statement failed, its frame never came or could
\* not be put out, or the frame is refused.
DrawFails ==
    /\ drawer = "draw"
    /\ \E how \in {"Failed"} \cup (IF FrameRefused THEN {"Refused"} ELSE {}) : Done(how)
    /\ UNCHANGED <<server, feeding, highest, frame, counted>>

Feed == FeedSim \/ WaitSim \/ WaitSimFails \/ SendPending
Drawing == Begin \/ Receive \/ Draw \/ DrawFails

Next == Simulate \/ Feed \/ Drawing

\* tokio::join polls both futures, and every wait of theirs on the server has
\* a timeout.  Nothing is assumed of the simulation.
Spec == Init /\ [][Next]_vars /\ WF_vars(Feed) /\ WF_vars(Drawing)

-----------------------------------------------------------------------------
\* The channel never holds more than the capacity play_sim creates it with, and
\* the locals of feed_ahead and drawing_loop have their types.
TypeOK ==
    /\ native_state \in Seq({"Played", "Refused", "DemoEnded"}) /\ fed \in 0 .. LastTic + 1
    /\ feeder \in {"feeding", "waiting", "sending", "ended"} /\ tic \in 1 .. LastTic + 1
    /\ pending \in {<< >>} \cup {<<m>> : m \in Message}
    /\ channel \in Seq(Message) /\ Len(channel) <= Capacity
    /\ receiving \in BOOLEAN /\ highest \in 0 .. LastTic
    /\ drawer \in {"start", "recv", "draw", "done"} /\ frame \in Nat
    /\ counted \in 0 .. LastTic
    /\ outcome \in {"none", "Played", "Refused", "Failed", "NoResult"}

\* A frame is only asked of the renderer when native_state holds the row of its
\* tic and that row was played.  The drawing loop never looks at native_state:
\* it trusts a counter that the feeder stores ahead of its message, while the
\* message that would stop the loop may still wait for room (demo.rs:488).
FramesReadPlayedTics ==
    drawer = "draw" =>
        SimTic(frame) \in DOMAIN native_state /\ native_state[SimTic(frame)] = "Played"

\* The tics the counters have not credited yet are the ones in the channel and
\* the one the feeder is blocked sending, and there are never more than that.
UncreditedIsInFlight ==
    drawer # "done" =>
        highest = counted + Credited(channel)
                  + (IF feeder = "sending" /\ ~ IsStop(pending[1]) THEN 1 ELSE 0)

\* Neither drain_ready (demo.rs:575) nor advance_to's recv (demo.rs:543) ever
\* reports "the simulation feeder ended without a result": whatever ended the
\* feeder reaches the loop first, and a run reported as refused had its last
\* tic refused.
FeederStopIsReceived ==
    /\ outcome # "NoResult"
    /\ outcome = "Refused" => native_state[Len(native_state)] = "Refused"

\* play_sim: both futures end, so the join does: a feeder blocked on a full
\* channel is woken by the receiver's drop.
BothEnd == <>[](feeder = "ended" /\ drawer = "done")

\* feed_ahead: the bound of the channel "is what keeps the simulation from
\* running further ahead of the screen than" --lookahead.  The tic the feeder
\* holds while it is blocked is allowed for.
WithinLookahead == drawer = "draw" => highest <= SimTic(frame) + Capacity + 1

\* drawing_loop: "A stop past the last frame this run asked for is not this
\* run's to report."
StopPastLastFrameNotReported ==
    outcome = "Refused" => SimTic(StopAtFrame) >= tic

=============================================================================
