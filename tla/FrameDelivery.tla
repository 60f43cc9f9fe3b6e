---------------------------- MODULE FrameDelivery ----------------------------
(***************************************************************************)
(* Pictures from the emulator worker to the canvas, and their              *)
(* acknowledgements back:                                                  *)
(*   apps/desktop/src-tauri/src/video/queue.rs         the two slots       *)
(*   apps/desktop/src-tauri/src/emulator/runtime.rs    the worker          *)
(*   apps/desktop/src/features/emulator/...            the page            *)
(*                                                                         *)
(* The worker publishes a frame only while none is in flight and keeps the *)
(* latest one pending.  The page draws the latest frame that arrived on    *)
(* the next animation frame and acknowledges its sequence number.  The     *)
(* worker handles the page's requests in order, between two ticks.         *)
(*                                                                         *)
(* Sequence numbers restart at one with every load and every reset of the  *)
(* core; frames carry the number of their game here, which the code does   *)
(* not know, so that properties can tell them apart.                       *)
(***************************************************************************)
EXTENDS Naturals, Sequences, FiniteSets

CONSTANTS
  MaxGame,      \* bound: loads and resets that succeed
  MaxSequence,  \* bound: frames of one game
  MaxPage,      \* bound: times the page is loaded
  MaxRequests,  \* bound: requests of the page under way
  None          \* Option::None, null

ASSUME BoundsAssumption ==
  /\ MaxGame \in Nat /\ MaxSequence \in Nat
  /\ MaxPage \in Nat \ {0} /\ MaxRequests \in Nat
ASSUME NoneAssumption ==
  None \notin 1 .. MaxPage \cup [game : 1 .. MaxGame, sequence : 1 .. MaxSequence]

Frame == [game : 1 .. MaxGame, sequence : 1 .. MaxSequence]
Request == [op : {"open", "start", "pause", "restart", "close"}]
             \cup [op : {"subscribe"}, page : 1 .. MaxPage]
             \cup [op : {"acknowledge"}, frame : Frame]

VARIABLES
  phase,         \* RuntimeModel.snapshot.phase
  game,          \* the game the core runs, counted over loads and resets
  nextSequence,  \* Ppu.next_sequence
  observer,      \* run_worker's observer: the page that subscribed, or None
  inFlight,      \* FrameQueue.in_flight_sequence, with its game
  latestPending, \* FrameQueue.latest_pending
  page,          \* the page that is loaded now
  transit,       \* its frame channel
  pendingFrame,  \* FrameCanvas pendingFrameRef
  requests,      \* the page's requests, oldest first
  unpresented,   \* frames published since the slots were last cleared and
                 \* not acknowledged themselves (history)
  refused        \* a request met a full command queue (history)

delivery == <<inFlight, latestPending, unpresented>>
core     == <<phase, game, nextSequence>>
canvas   == <<page, transit, pendingFrame>>
vars == <<core, observer, delivery, canvas, requests, refused>>

Init ==
  /\ phase = "Empty"
  /\ game = 0
  /\ nextSequence = 1
  /\ observer = None
  /\ inFlight = None
  /\ latestPending = None
  /\ page = 1
  /\ transit = <<>>
  /\ pendingFrame = None
  /\ requests = <<[op |-> "subscribe", page |-> 1]>>
  /\ unpresented = {}
  /\ refused = FALSE

-----------------------------------------------------------------------------
(* The two slots.                                                          *)

Clear ==
  /\ inFlight' = None
  /\ latestPending' = None
  /\ unpresented' = {}

\* publish_frame puts a frame in flight, with what is then pending and still
\* open.  To a page that is gone the frame is lost, or the send fails, which
\* detaches the observer and clears the slots; so does having no observer.
Publish(frame, pending, open) ==
  \/ /\ observer # None
     /\ inFlight' = frame
     /\ latestPending' = pending
     /\ unpresented' = open \cup {frame}
     /\ transit' = IF observer = page THEN Append(transit, frame) ELSE transit
     /\ UNCHANGED observer
  \/ /\ observer # page
     /\ observer' = None
     /\ Clear
     /\ UNCHANGED transit

\* FrameQueue::offer
Offer(frame) ==
  IF inFlight = None
    THEN Publish(frame, latestPending, unpresented)
    ELSE /\ latestPending' = frame
         /\ UNCHANGED <<inFlight, unpresented, observer, transit>>

-----------------------------------------------------------------------------
(* The worker.                                                             *)

\* publish_control: the snapshot sent to a page that is gone may fail.
PublishControl == \/ UNCHANGED observer
                  \/ observer # page /\ observer' = None

\* run_tick: the cycles of one frame may end a picture, or the core fails.
Tick ==
  /\ phase = "Running"
  /\ \/ /\ nextSequence <= MaxSequence
        /\ nextSequence' = nextSequence + 1
        /\ IF observer = None
             THEN Clear /\ UNCHANGED <<observer, transit>>
             ELSE Offer([game |-> game, sequence |-> nextSequence])
        /\ UNCHANGED <<phase, game>>
     \/ /\ phase' = "Error"
        /\ Clear
        /\ PublishControl
        /\ UNCHANGED <<game, nextSequence, transit>>
  /\ UNCHANGED <<page, pendingFrame, requests, refused>>

Handling(op) ==
  /\ requests # <<>>
  /\ Head(requests).op = op
  /\ requests' = Tail(requests)
  /\ UNCHANGED <<page, pendingFrame, refused>>

Loaded == phase \in {"Paused", "Running"}

NewGame ==
  /\ game < MaxGame
  /\ game' = game + 1
  /\ nextSequence' = 1

\* Mutant: the slots of the earlier page are kept.
SubscribeKeeps ==
  /\ Handling("subscribe")
  /\ UNCHANGED <<delivery, core, transit>>
  /\ \/ observer' = Head(requests).page
     \/ Head(requests).page # page /\ observer' = None

\* The first snapshot for a page that is gone already may fail.
HandleSubscribe ==
  /\ Handling("subscribe")
  /\ Clear
  /\ \/ observer' = Head(requests).page
     \/ Head(requests).page # page /\ observer' = None
  /\ UNCHANGED <<core, transit>>

HandleOpenRom ==
  /\ Handling("open")
  /\ Clear
  /\ \/ NewGame /\ phase' = "Paused"
     \/ phase' = "Error" /\ UNCHANGED <<game, nextSequence>>
  /\ PublishControl
  /\ UNCHANGED transit

HandleStart ==
  /\ Handling("start")
  /\ \/ Loaded /\ phase' = "Running" /\ PublishControl
     \/ ~ Loaded /\ UNCHANGED <<phase, observer>>
  /\ UNCHANGED <<game, nextSequence, delivery, transit>>

\* The slots are cleared whether a game is loaded or not.
HandlePause ==
  /\ Handling("pause")
  /\ Clear
  /\ \/ Loaded /\ phase' = "Paused" /\ PublishControl
     \/ ~ Loaded /\ UNCHANGED <<phase, observer>>
  /\ UNCHANGED <<game, nextSequence, transit>>

\* Mutant: the frames of the game before stay in the slots.
RestartKeeps ==
  /\ Handling("restart")
  /\ \/ Loaded /\ NewGame /\ phase' = "Running" /\ PublishControl
     \/ UNCHANGED <<core, observer>>
  /\ UNCHANGED <<delivery, transit>>

\* The reset may fail, or nothing be loaded: the slots are cleared anyway.
HandleRestart ==
  /\ Handling("restart")
  /\ Clear
  /\ \/ Loaded /\ NewGame /\ phase' = "Running" /\ PublishControl
     \/ UNCHANGED <<core, observer>>
  /\ UNCHANGED transit

HandleClose ==
  /\ Handling("close")
  /\ Clear
  /\ phase' = "Empty"
  /\ PublishControl
  /\ UNCHANGED <<game, nextSequence, transit>>

\* Mutant: the pending frame is sent, but stays pending.
AcknowledgeResends(frame) ==
  IF inFlight = None \/ inFlight.sequence # frame.sequence
    THEN /\ unpresented' = unpresented \ {frame}
         /\ UNCHANGED <<inFlight, latestPending, observer, transit>>
    ELSE IF latestPending = None
      THEN /\ inFlight' = None
           /\ unpresented' = unpresented \ {frame}
           /\ UNCHANGED <<latestPending, observer, transit>>
      ELSE Publish(latestPending, latestPending, unpresented \ {frame})

\* acknowledge_frame compares sequence numbers; one that is not in flight is
\* an error that changes nothing.
Acknowledge(frame) ==
  IF inFlight = None \/ inFlight.sequence # frame.sequence
    THEN /\ unpresented' = unpresented \ {frame}
         /\ UNCHANGED <<inFlight, latestPending, observer, transit>>
    ELSE IF latestPending = None
      THEN /\ inFlight' = None
           /\ unpresented' = unpresented \ {frame}
           /\ UNCHANGED <<latestPending, observer, transit>>
      ELSE Publish(latestPending, None, unpresented \ {frame})

HandleAcknowledgeFrame ==
  /\ Handling("acknowledge")
  /\ Acknowledge(Head(requests).frame)
  /\ UNCHANGED core

-----------------------------------------------------------------------------
(* The page.  Its requests share the worker's bounded command queue with   *)
(* the remote controller's: any of them may be refused, and is not retried.*)

Send(request) ==
  \/ requests' = Append(requests, request) /\ UNCHANGED refused
  \/ refused' = TRUE /\ UNCHANGED requests

UserRequest(op) ==
  /\ Len(requests) < MaxRequests
  /\ Send([op |-> op])
  /\ UNCHANGED <<core, observer, delivery, canvas>>

\* The consumer of FrameCanvas keeps the latest arrival for the next
\* animation frame.
ReceiveFrame ==
  /\ transit # <<>>
  /\ pendingFrame' = Head(transit)
  /\ transit' = Tail(transit)
  /\ UNCHANGED <<core, observer, delivery, page, requests, refused>>

Draw ==
  /\ pendingFrame # None
  /\ pendingFrame' = None
  /\ Send([op |-> "acknowledge", frame |-> pendingFrame])
  /\ UNCHANGED <<core, observer, delivery, page, transit>>

\* The page is loaded anew: what was on its way to the old one is lost.
Reload ==
  /\ page < MaxPage
  /\ page' = page + 1
  /\ transit' = <<>>
  /\ pendingFrame' = None
  /\ Send([op |-> "subscribe", page |-> page'])
  /\ UNCHANGED <<core, observer, delivery>>

-----------------------------------------------------------------------------
HandleRequest ==
  \/ HandleSubscribe
  \/ HandleOpenRom
  \/ HandleStart
  \/ HandlePause
  \/ HandleRestart
  \/ HandleClose
  \/ HandleAcknowledgeFrame

Next ==
  \/ Tick
  \/ HandleRequest
  \/ \E op \in {"open", "start", "pause", "restart", "close"} : UserRequest(op)
  \/ ReceiveFrame
  \/ Draw
  \/ Reload

\* The worker takes its commands, and a visible page handles its channel and
\* its animation frames.
Fairness ==
  /\ WF_vars(HandleRequest)
  /\ WF_vars(ReceiveFrame)
  /\ WF_vars(Draw)

Spec == Init /\ [][Next]_vars
FairSpec == Spec /\ Fairness

-----------------------------------------------------------------------------
(* Properties.                                                             *)

\* The values each variable ranges over.
TypeOK ==
  /\ phase \in {"Empty", "Paused", "Running", "Error"}
  /\ game \in 0 .. MaxGame
  /\ nextSequence \in 1 .. MaxSequence + 1
  /\ observer \in 1 .. MaxPage \cup {None}
  /\ inFlight \in Frame \cup {None}
  /\ latestPending \in Frame \cup {None}
  /\ page \in 1 .. MaxPage
  /\ transit \in Seq(Frame)
  /\ pendingFrame \in Frame \cup {None}
  /\ requests \in Seq(Request)
  /\ unpresented \subseteq Frame
  /\ refused \in BOOLEAN

\* The slots hold pictures of the game that runs now, the pending one is the
\* latest it made, and of a session's first game at most one picture is on its
\* way unacknowledged, although acknowledgements, pauses, restarts and new
\* games reach the worker in any order.
SlotsFollowTheGame ==
  /\ game <= 1 => Cardinality(unpresented) <= 1
  /\ inFlight # None => inFlight.game = game
  /\ latestPending # None =>
       /\ latestPending.game = game
       /\ inFlight # None
       /\ inFlight.sequence < latestPending.sequence
       /\ latestPending.sequence = nextSequence - 1

Before(f, g) == \/ f.game < g.game
                \/ f.game = g.game /\ f.sequence < g.sequence

\* The page never sees a picture again or an older one after a newer one.
PictureMovesForward ==
  /\ \A i, j \in 1 .. Len(transit) : i < j => Before(transit[i], transit[j])
  /\ (pendingFrame # None /\ transit # <<>>) => Before(pendingFrame, Head(transit))

\* Backpressure: of the frames published since the slots were last cleared,
\* at most one has not been acknowledged.
OneFrameInFlight == Cardinality(unpresented) <= 1

\* The picture never freezes: in a running game a frame in flight is released,
\* whatever is restarted and reloaded, unless a request was refused.
SlotIsReleased ==
  \A frame \in Frame :
    (inFlight = frame /\ phase = "Running") ~>
      (inFlight # frame \/ phase # "Running" \/ observer = None \/ refused)
=============================================================================
