------------------------- MODULE FrameDeliveryProofs -------------------------
(* Pictures reach the canvas in order and the slots follow the game, for    *)
(* any number of games, frames, pages and requests.                         *)
EXTENDS FrameDelivery, FiniteSetTheorems, SequenceTheorems, TLAPS

(* The strengthened invariant.                                              *)

\* The core has made the frame, and what is in flight is no older.
Made(f) == \/ f.game < game
           \/ f.game = game /\ f.sequence < nextSequence
Sent(f) == /\ Made(f)
           /\ (inFlight # None /\ f.game = game) => f.sequence <= inFlight.sequence

\* A core is loaded only with a game, and the slots hold frames that it made.
Slots ==
  /\ phase \in {"Paused", "Running"} => game >= 1
  /\ inFlight # None => inFlight.game = game /\ inFlight.sequence < nextSequence
  /\ latestPending # None =>
       /\ latestPending.game = game
       /\ inFlight # None
       /\ inFlight.sequence < latestPending.sequence
       /\ latestPending.sequence = nextSequence - 1

AcknowledgedWereMade ==
  \A i \in 1 .. Len(requests) :
    requests[i].op = "acknowledge" => requests[i].frame.game <= game

\* What is under way to the page, and back, was sent before; the way is a queue.
Ordered ==
  /\ \A i \in 1 .. Len(transit) : Sent(transit[i])
  /\ pendingFrame # None => Sent(pendingFrame)
  /\ PictureMovesForward
  /\ AcknowledgedWereMade

\* The number of a frame tells it apart while there was one game only.
FirstGame == game <= 1 => \A f \in unpresented : f = inFlight

FrameInv == TypeOK /\ Slots /\ Ordered /\ FirstGame

-----------------------------------------------------------------------------
LEMMA Bounds ==
  /\ MaxGame \in Nat /\ MaxSequence \in Nat /\ MaxPage \in Nat \ {0}
  /\ None \notin Frame /\ None \notin 1 .. MaxPage
  BY BoundsAssumption, NoneAssumption DEF Frame

\* The order of the frames is an order.
LEMMA BeforeIsTransitive ==
  ASSUME NEW f \in Frame, NEW g \in Frame, NEW h \in Frame, Before(f, g), Before(g, h)
  PROVE  Before(f, h)
  BY Bounds DEF Before, Frame

LEMMA StartsOrdered == Init => FrameInv
<1> SUFFICES ASSUME Init PROVE FrameInv
  OBVIOUS
<1>1. /\ transit = <<>> /\ Len(transit) = 0 /\ transit \in Seq(Frame)
      /\ inFlight = None /\ latestPending = None /\ pendingFrame = None
      /\ unpresented = {} /\ game = 0
  BY EmptySeq DEF Init
<1>2. /\ requests = <<[op |-> "subscribe", page |-> 1]>>
      /\ [op |-> "subscribe", page |-> 1] \in Request
  BY Bounds DEF Init, Request
<1>3. /\ requests \in Seq(Request) /\ Len(requests) = 1
      /\ requests[1] = [op |-> "subscribe", page |-> 1]
  BY <1>2
<1>4. TypeOK
  <2>1. 1 \in 1 .. MaxPage /\ 1 \in 1 .. MaxSequence + 1 /\ 0 \in 0 .. MaxGame
    BY Bounds
  <2>2. refused \in BOOLEAN /\ unpresented \subseteq Frame
    BY <1>1, Zenon DEF Init
  <2> QED
    BY <1>1, <1>3, <2>1, <2>2 DEF Init, TypeOK
<1>5. Slots /\ FirstGame
  BY <1>1 DEF Init, Slots, FirstGame
<1>6. Ordered
  BY <1>1, <1>3 DEF Ordered, PictureMovesForward, AcknowledgedWereMade
<1> QED
  BY <1>4, <1>5, <1>6 DEF FrameInv

\* A frame that comes after all that is under way goes to the end of the queue.
LEMMA QueueGrows ==
  ASSUME TypeOK, PictureMovesForward, NEW frame \in Frame,
         \A i \in 1 .. Len(transit) : Before(transit[i], frame),
         pendingFrame # None => Before(pendingFrame, frame),
         transit' = Append(transit, frame), UNCHANGED pendingFrame
  PROVE  /\ transit' \in Seq(Frame)
         /\ PictureMovesForward'
         /\ \A i \in 1 .. Len(transit') :
              transit'[i] = frame \/ (i \in 1 .. Len(transit) /\ transit'[i] = transit[i])
<1>1. /\ transit \in Seq(Frame) /\ Len(transit) \in Nat
      /\ transit' \in Seq(Frame) /\ Len(transit') = Len(transit) + 1
      /\ transit'[Len(transit) + 1] = frame
      /\ \A i \in 1 .. Len(transit) : transit'[i] = transit[i]
  BY AppendProperties, LenProperties DEF TypeOK
<1>2. \A i \in 1 .. Len(transit') :
        transit'[i] = frame \/ (i \in 1 .. Len(transit) /\ transit'[i] = transit[i])
  <2> TAKE i \in 1 .. Len(transit')
  <2>1. CASE i = Len(transit) + 1
    BY <1>1, <2>1
  <2>2. CASE i # Len(transit) + 1
    <3>1. i \in 1 .. Len(transit)
      BY <1>1, <2>2
    <3> QED
      BY <1>1, <3>1
  <2> QED
    BY <2>1, <2>2
<1>3. \A i, j \in 1 .. Len(transit') : i < j => Before(transit'[i], transit'[j])
  <2> SUFFICES ASSUME NEW i \in 1 .. Len(transit'), NEW j \in 1 .. Len(transit'), i < j
               PROVE  Before(transit'[i], transit'[j])
    OBVIOUS
  <2>1. i \in 1 .. Len(transit) /\ transit'[i] = transit[i]
    BY <1>1
  <2>2. CASE j \in 1 .. Len(transit)
    BY <1>1, <2>1, <2>2 DEF PictureMovesForward
  <2>3. CASE j = Len(transit) + 1
    BY <1>1, <2>1, <2>3
  <2> QED
    BY <1>1, <2>2, <2>3
<1>4. pendingFrame' # None => Before(pendingFrame', Head(transit'))
  <2>1. Head(transit') = transit'[1]
    BY <1>1, HeadTailProperties
  <2>2. CASE transit = <<>>
    BY <1>1, <2>1, <2>2
  <2>3. CASE transit # <<>>
    <3>1. Len(transit) >= 1 /\ Head(transit) = transit[1]
      BY <1>1, <2>3, HeadTailProperties, EmptySeq
    <3> QED
      BY <1>1, <2>1, <2>3, <3>1 DEF PictureMovesForward
  <2> QED
    BY <2>2, <2>3
<1> QED
  BY <1>1, <1>2, <1>3, <1>4 DEF PictureMovesForward, Before

-----------------------------------------------------------------------------
(* The two slots.                                                           *)

\* What comes after all frames that were sent.
LEMMA NewerThanSent ==
  ASSUME FrameInv, NEW frame \in Frame, frame.game = game,
         frame.sequence < nextSequence => inFlight # None /\ inFlight.sequence < frame.sequence,
         NEW f \in Frame, Sent(f)
  PROVE  Before(f, frame)
<1>1. /\ f.game \in Nat /\ f.sequence \in Nat /\ frame.sequence \in Nat
      /\ game \in Nat /\ nextSequence \in Nat
  BY Bounds DEF FrameInv, TypeOK, Frame
<1>2. inFlight # None => inFlight.sequence \in Nat
  BY Bounds DEF FrameInv, TypeOK, Frame
<1> QED
  BY <1>1, <1>2 DEF Before, Sent, Made

\* The requests that are left are of before; games are only added.
LEMMA RequestsLeft ==
  ASSUME TypeOK, AcknowledgedWereMade, game' \in 0 .. MaxGame, game' >= game,
         \A i \in 1 .. Len(requests') : \E j \in 1 .. Len(requests) : requests'[i] = requests[j]
  PROVE  AcknowledgedWereMade'
<1> SUFFICES ASSUME NEW i \in 1 .. Len(requests'), requests'[i].op = "acknowledge"
             PROVE  requests'[i].frame.game <= game'
  BY DEF AcknowledgedWereMade
<1>1. PICK j \in 1 .. Len(requests) : requests'[i] = requests[j]
  OBVIOUS
<1>2. requests[j] \in Request /\ requests[j].op = "acknowledge"
  <2>1. requests \in Seq(Request)
    BY DEF TypeOK
  <2> QED
    BY <1>1, <2>1, ElementOfSeq
<1>3. requests[j].frame.game \in Nat /\ requests[j].frame.game <= game
  BY <1>2, Bounds DEF Request, Frame, AcknowledgedWereMade
<1>4. game \in Nat /\ game' \in Nat
  BY Bounds DEF TypeOK
<1> QED
  BY <1>1, <1>3, <1>4

\* A step that puts nothing in flight keeps the order of what was sent.
LEMMA SlotsKeep ==
  ASSUME FrameInv,
         UNCHANGED <<page, transit, pendingFrame, refused>>,
         phase' \in {"Empty", "Paused", "Running", "Error"},
         observer' \in 1 .. MaxPage \cup {None},
         requests' \in Seq(Request),
         \A i \in 1 .. Len(requests') : \E j \in 1 .. Len(requests) : requests'[i] = requests[j],
         \/ game' = game /\ nextSequence' \in 1 .. MaxSequence + 1 /\ nextSequence' >= nextSequence
         \/ NewGame,
         inFlight' \in {inFlight, None}, latestPending' \in Frame \cup {None},
         unpresented' \subseteq Frame,
         Slots', FirstGame'
  PROVE  FrameInv'
<1>1. /\ game \in 0 .. MaxGame /\ nextSequence \in 1 .. MaxSequence + 1
      /\ transit \in Seq(Frame) /\ pendingFrame \in Frame \cup {None}
      /\ requests \in Seq(Request) /\ inFlight \in Frame \cup {None}
  BY DEF FrameInv, TypeOK
<1>2. /\ game' \in 0 .. MaxGame /\ nextSequence' \in 1 .. MaxSequence + 1
      /\ game' >= game /\ (game' = game => nextSequence' >= nextSequence)
  BY <1>1, Bounds DEF NewGame
<1>3. TypeOK'
  BY <1>1, <1>2 DEF FrameInv, TypeOK
<1>4. \A f \in Frame : Sent(f) => Sent(f)'
  <2> SUFFICES ASSUME NEW f \in Frame, Sent(f) PROVE Sent(f)'
    OBVIOUS
  <2>1. f.game \in Nat /\ f.sequence \in Nat
    BY Bounds DEF Frame
  <2>2. f.game < game \/ (f.game = game /\ f.sequence < nextSequence)
    BY DEF Sent, Made
  <2>3. game \in Nat /\ game' \in Nat /\ nextSequence \in Nat /\ nextSequence' \in Nat
    BY <1>1, <1>2, Bounds
  <2>4. f.game < game' \/ (f.game = game' /\ f.sequence < nextSequence')
    BY <1>2, <2>1, <2>2, <2>3
  <2>5. (inFlight' # None /\ f.game = game') => f.sequence <= inFlight'.sequence
    <3> SUFFICES ASSUME inFlight' # None, f.game = game' PROVE f.sequence <= inFlight'.sequence
      OBVIOUS
    <3>1. inFlight' = inFlight /\ f.game = game
      BY <1>2, <2>1, <2>2, <2>3
    <3> QED
      BY <3>1 DEF Sent
  <2> QED
    BY <2>4, <2>5 DEF Sent, Made
<1>5. Ordered'
  <2>1. (\A i \in 1 .. Len(transit) : Sent(transit[i]))'
    <3>1. \A i \in 1 .. Len(transit) : transit[i] \in Frame /\ Sent(transit[i])
      BY <1>1, ElementOfSeq DEF FrameInv, Ordered
    <3> QED
      BY <1>4, <3>1 DEF Sent, Made
  <2>2. (pendingFrame # None => Sent(pendingFrame))'
    <3>1. pendingFrame # None => pendingFrame \in Frame /\ Sent(pendingFrame)
      BY <1>1 DEF FrameInv, Ordered
    <3> QED
      BY <1>4, <3>1 DEF Sent, Made
  <2>3. PictureMovesForward'
    BY DEF FrameInv, Ordered, PictureMovesForward, Before
  <2>4. AcknowledgedWereMade'
    BY <1>2, RequestsLeft DEF FrameInv, Ordered
  <2> QED
    BY <2>1, <2>2, <2>3, <2>4 DEF Ordered
<1> QED
  BY <1>3, <1>5 DEF FrameInv

\* Cleared slots follow any game.
LEMMA Cleared ==
  ASSUME Clear, phase' \in {"Paused", "Running"} => game' >= 1
  PROVE  /\ inFlight' \in {inFlight, None} /\ latestPending' \in Frame \cup {None}
         /\ unpresented' \subseteq Frame
         /\ Slots' /\ FirstGame'
<1>1. inFlight' = None /\ latestPending' = None /\ unpresented' = {}
  BY DEF Clear
<1> QED
  BY <1>1 DEF Slots, FirstGame

\* publish_frame, of a frame that is newer than all that was sent.
LEMMA PublishKeeps ==
  ASSUME FrameInv, phase \in {"Paused", "Running"} => game >= 1,
         NEW frame \in Frame, frame.game = game, frame.sequence < nextSequence',
         frame.sequence < nextSequence => inFlight # None /\ inFlight.sequence < frame.sequence,
         NEW open, open \subseteq Frame, game <= 1 => open = {},
         Publish(frame, None, open),
         UNCHANGED <<phase, game, page, pendingFrame, refused>>,
         requests' \in Seq(Request),
         \A i \in 1 .. Len(requests') : \E j \in 1 .. Len(requests) : requests'[i] = requests[j],
         nextSequence' \in 1 .. MaxSequence + 1, nextSequence' >= nextSequence
  PROVE  FrameInv'
<1>0. phase' \in {"Empty", "Paused", "Running", "Error"}
  BY DEF FrameInv, TypeOK
<1>1. CASE observer' = None /\ Clear /\ UNCHANGED transit
  BY <1>0, <1>1, Cleared, SlotsKeep
<1>2. CASE /\ observer # None /\ UNCHANGED observer
           /\ inFlight' = frame /\ latestPending' = None
           /\ unpresented' = open \cup {frame}
           /\ transit' = IF observer = page THEN Append(transit, frame) ELSE transit
  <2>1. /\ transit \in Seq(Frame) /\ game \in Nat /\ nextSequence' \in Nat
        /\ pendingFrame \in Frame \cup {None} /\ frame # None
        /\ frame.game \in Nat /\ frame.sequence \in Nat
    BY Bounds DEF FrameInv, TypeOK, Frame
  <2>2. \A i \in 1 .. Len(transit) : transit[i] \in Frame /\ Before(transit[i], frame)
    BY <2>1, ElementOfSeq, NewerThanSent DEF FrameInv, Ordered
  <2>3. pendingFrame # None => pendingFrame \in Frame /\ Before(pendingFrame, frame)
    BY <2>1, NewerThanSent DEF FrameInv, Ordered
  <2>4. /\ transit' \in Seq(Frame) /\ PictureMovesForward'
        /\ \A i \in 1 .. Len(transit') :
             transit'[i] = frame \/ (i \in 1 .. Len(transit) /\ transit'[i] = transit[i])
    <3>1. CASE observer = page
      BY <1>2, <2>2, <2>3, <3>1, QueueGrows DEF FrameInv, Ordered
    <3>2. CASE observer # page
      BY <1>2, <2>1, <3>2 DEF FrameInv, Ordered, PictureMovesForward, Before
    <3> QED
      BY <3>1, <3>2
  <2>5. \A f \in Frame : f = frame \/ Before(f, frame) => Sent(f)'
    <3> SUFFICES ASSUME NEW f \in Frame, f = frame \/ Before(f, frame) PROVE Sent(f)'
      OBVIOUS
    <3>1. f.game \in Nat /\ f.sequence \in Nat
      BY Bounds DEF Frame
    <3> QED
      BY <1>2, <2>1, <3>1 DEF Before, Sent, Made
  <2>6. Ordered'
    <3>1. (\A i \in 1 .. Len(transit) : Sent(transit[i]))'
      <4>1. \A i \in 1 .. Len(transit') :
              transit'[i] \in Frame /\ (transit'[i] = frame \/ Before(transit'[i], frame))
        BY <2>2, <2>4
      <4> QED
        BY <2>5, <4>1 DEF Sent, Made
    <3>2. (pendingFrame # None => Sent(pendingFrame))'
      BY <2>3, <2>5 DEF Sent, Made
    <3>3. AcknowledgedWereMade'
      <4>1. game' \in 0 .. MaxGame /\ game' >= game
        BY <2>1 DEF FrameInv, TypeOK
      <4> QED
        BY <4>1, RequestsLeft DEF FrameInv, Ordered
    <3> QED
      BY <2>4, <3>1, <3>2, <3>3 DEF Ordered
  <2>7. TypeOK'
    <3>1. unpresented' \subseteq Frame
      BY <1>2
    <3> QED
      BY <1>0, <1>2, <2>4, <3>1 DEF FrameInv, TypeOK
  <2>8. Slots'
    BY <1>2 DEF Slots
  <2>9. FirstGame'
    BY <1>2 DEF FirstGame
  <2> QED
    BY <2>6, <2>7, <2>8, <2>9 DEF FrameInv
<1> QED
  BY <1>1, <1>2 DEF Publish

-----------------------------------------------------------------------------
(* The worker.                                                              *)

LEMMA TickKeeps == FrameInv /\ Tick => FrameInv'
<1> SUFFICES ASSUME FrameInv, Tick PROVE FrameInv'
  OBVIOUS
<1>1. /\ phase = "Running" /\ UNCHANGED <<page, pendingFrame, requests, refused>>
      /\ requests' \in Seq(Request) /\ game \in 0 .. MaxGame /\ game >= 1
      /\ nextSequence \in 1 .. MaxSequence + 1 /\ observer \in 1 .. MaxPage \cup {None}
  BY DEF Tick, FrameInv, TypeOK, Slots
<1>2. \A i \in 1 .. Len(requests') : \E j \in 1 .. Len(requests) : requests'[i] = requests[j]
  BY <1>1
<1>3. CASE /\ phase' = "Error" /\ Clear /\ PublishControl
           /\ UNCHANGED <<game, nextSequence, transit>>
  <2>1. observer' \in 1 .. MaxPage \cup {None}
    BY <1>1, <1>3 DEF PublishControl
  <2>2. nextSequence' \in 1 .. MaxSequence + 1 /\ nextSequence' >= nextSequence
    BY <1>1, <1>3, Bounds
  <2> QED
    BY <1>1, <1>2, <1>3, <2>1, <2>2, Cleared, SlotsKeep
<1>4. CASE /\ nextSequence <= MaxSequence
           /\ nextSequence' = nextSequence + 1
           /\ IF observer = None
                THEN Clear /\ UNCHANGED <<observer, transit>>
                ELSE Offer([game |-> game, sequence |-> nextSequence])
           /\ UNCHANGED <<phase, game>>
  <2> DEFINE frame == [game |-> game, sequence |-> nextSequence]
  <2>1. /\ frame \in Frame /\ frame.game = game /\ frame.sequence = nextSequence
        /\ nextSequence \in Nat
        /\ nextSequence' \in 1 .. MaxSequence + 1 /\ nextSequence' >= nextSequence
    BY <1>1, <1>4, Bounds DEF Frame
  <2> HIDE DEF frame
  <2>2. CASE observer = None
    <3>1. Clear /\ UNCHANGED <<observer, transit, phase, game>>
      BY <1>4, <2>2
    <3> QED
      BY <1>1, <1>2, <2>1, <3>1, Cleared, SlotsKeep
  <2>3. CASE observer # None /\ inFlight = None
    <3>1. latestPending = None
      BY <2>3 DEF FrameInv, Slots
    <3>2. Publish(frame, None, unpresented)
      BY <1>4, <2>3, <3>1 DEF Offer, frame
    <3>3. unpresented \subseteq Frame
      BY DEF FrameInv, TypeOK
    <3>4. game <= 1 => unpresented = {}
      <4>1. game <= 1 => \A f \in unpresented : f = None
        BY <2>3 DEF FrameInv, FirstGame
      <4> QED
        BY <3>3, <4>1, Bounds
    <3>5. frame.sequence < nextSequence' /\ ~ (frame.sequence < nextSequence)
      BY <1>4, <2>1
    <3> QED
      BY <1>1, <1>2, <1>4, <2>1, <3>2, <3>3, <3>4, <3>5, PublishKeeps
  <2>4. CASE observer # None /\ inFlight # None
    <3>1. /\ latestPending' = frame
          /\ UNCHANGED <<inFlight, unpresented, observer, transit, phase, game>>
      BY <1>4, <2>4 DEF Offer, frame
    <3>2. Slots'
      BY <1>1, <1>4, <2>1, <2>4, <3>1, Bounds DEF FrameInv, TypeOK, Slots, Frame
    <3>3. FirstGame' /\ unpresented' \subseteq Frame
      BY <3>1 DEF FrameInv, TypeOK, FirstGame
    <3> QED
      BY <1>1, <1>2, <2>1, <3>1, <3>2, <3>3, SlotsKeep
  <2> QED
    BY <2>2, <2>3, <2>4
<1> QED
  BY <1>3, <1>4 DEF Tick

\* What is left of the requests when the oldest is handled.
LEMMA Handled ==
  ASSUME TypeOK, NEW op, Handling(op)
  PROVE  /\ Head(requests) \in Request /\ Head(requests).op = op
         /\ Len(requests) \in Nat /\ 1 \in 1 .. Len(requests) /\ Head(requests) = requests[1]
         /\ requests' \in Seq(Request)
         /\ \A i \in 1 .. Len(requests') : \E j \in 1 .. Len(requests) : requests'[i] = requests[j]
         /\ UNCHANGED <<page, pendingFrame, refused>>
<1>1. requests \in Seq(Request) /\ requests # <<>> /\ requests' = Tail(requests)
  BY DEF TypeOK, Handling
<1>2. /\ Len(requests) \in Nat /\ Len(requests) >= 1 /\ Head(requests) = requests[1]
      /\ requests' \in Seq(Request) /\ Len(requests') = Len(requests) - 1
      /\ \A i \in 1 .. Len(requests') : requests'[i] = requests[i + 1]
  BY <1>1, HeadTailProperties, EmptySeq, LenProperties
<1>3. Head(requests) \in Request
  BY <1>1, <1>2, ElementOfSeq
<1>4. \A i \in 1 .. Len(requests') : i + 1 \in 1 .. Len(requests)
  BY <1>2
<1> QED
  BY <1>2, <1>3, <1>4 DEF Handling

\* The requests that clear the slots.
LEMMA ClearingKeeps ==
  ASSUME FrameInv,
         \/ HandleSubscribe \/ HandleOpenRom \/ HandlePause \/ HandleRestart \/ HandleClose
  PROVE  FrameInv'
<1>1. PICK op : Handling(op)
  BY DEF HandleSubscribe, HandleOpenRom, HandlePause, HandleRestart, HandleClose
<1>2. /\ Clear /\ UNCHANGED transit
  BY DEF HandleSubscribe, HandleOpenRom, HandlePause, HandleRestart, HandleClose
<1>3. /\ game \in 0 .. MaxGame /\ nextSequence \in 1 .. MaxSequence + 1
      /\ phase \in {"Empty", "Paused", "Running", "Error"}
      /\ observer \in 1 .. MaxPage \cup {None}
      /\ phase \in {"Paused", "Running"} => game >= 1
  BY DEF FrameInv, TypeOK, Slots
<1>4. /\ phase' \in {"Empty", "Paused", "Running", "Error"}
      /\ (game' = game /\ nextSequence' = nextSequence) \/ NewGame
      /\ phase' \in {"Paused", "Running"} => game' = game + 1 \/ (game' = game /\ game >= 1)
  BY <1>3 DEF HandleSubscribe, HandleOpenRom, HandlePause, HandleRestart, HandleClose,
              NewGame, Loaded, core
<1>5. observer' \in 1 .. MaxPage \cup {None}
  <2>1. CASE HandleSubscribe
    <3>1. Head(requests) \in Request /\ Head(requests).op = "subscribe"
      BY <2>1, Handled DEF FrameInv, HandleSubscribe
    <3>2. Head(requests).page \in 1 .. MaxPage
      BY <3>1 DEF Request
    <3> QED
      BY <2>1, <3>2 DEF HandleSubscribe
  <2>2. CASE HandleOpenRom \/ HandlePause \/ HandleRestart \/ HandleClose
    BY <1>3, <2>2 DEF HandleOpenRom, HandlePause, HandleRestart, HandleClose, PublishControl
  <2> QED
    BY <2>1, <2>2
<1>6. phase' \in {"Paused", "Running"} => game' >= 1
  BY <1>3, <1>4, Bounds
<1>7. \/ /\ game' = game /\ nextSequence' \in 1 .. MaxSequence + 1
         /\ nextSequence' >= nextSequence
      \/ NewGame
  BY <1>3, <1>4, Bounds
<1>8. TypeOK
  BY DEF FrameInv
<1>9. /\ requests' \in Seq(Request) /\ UNCHANGED <<page, pendingFrame, refused>>
      /\ \A i \in 1 .. Len(requests') : \E j \in 1 .. Len(requests) : requests'[i] = requests[j]
  BY <1>1, <1>8, Handled
<1>10. /\ inFlight' \in {inFlight, None} /\ latestPending' \in Frame \cup {None}
       /\ unpresented' \subseteq Frame /\ Slots' /\ FirstGame'
  BY <1>2, <1>6, Cleared
<1> QED
  BY <1>2, <1>4, <1>5, <1>7, <1>9, <1>10, SlotsKeep

LEMMA HandleStartKeeps == FrameInv /\ HandleStart => FrameInv'
<1> SUFFICES ASSUME FrameInv, HandleStart PROVE FrameInv'
  OBVIOUS
<1>1. /\ requests' \in Seq(Request) /\ UNCHANGED <<page, pendingFrame, refused>>
      /\ \A i \in 1 .. Len(requests') : \E j \in 1 .. Len(requests) : requests'[i] = requests[j]
  BY Handled DEF FrameInv, HandleStart
<1>2. /\ UNCHANGED <<game, nextSequence, inFlight, latestPending, unpresented, transit>>
      /\ phase' \in {"Empty", "Paused", "Running", "Error"}
      /\ observer' \in 1 .. MaxPage \cup {None}
      /\ phase' \in {"Paused", "Running"} => phase \in {"Paused", "Running"}
  BY DEF FrameInv, TypeOK, HandleStart, Loaded, PublishControl, delivery
<1>3. /\ nextSequence' \in 1 .. MaxSequence + 1 /\ nextSequence' >= nextSequence
      /\ inFlight' \in {inFlight, None} /\ latestPending' \in Frame \cup {None}
      /\ unpresented' \subseteq Frame
  BY <1>2, Bounds DEF FrameInv, TypeOK
<1>4. Slots' /\ FirstGame'
  BY <1>2 DEF FrameInv, Slots, FirstGame
<1> QED
  BY <1>1, <1>2, <1>3, <1>4, SlotsKeep

LEMMA HandleAcknowledgeKeeps == FrameInv /\ HandleAcknowledgeFrame => FrameInv'
<1> SUFFICES ASSUME FrameInv, HandleAcknowledgeFrame PROVE FrameInv'
  OBVIOUS
<1> DEFINE frame == Head(requests).frame
<1>1. /\ requests' \in Seq(Request) /\ UNCHANGED <<page, pendingFrame, refused>>
      /\ \A i \in 1 .. Len(requests') : \E j \in 1 .. Len(requests) : requests'[i] = requests[j]
      /\ Head(requests) \in Request /\ Head(requests).op = "acknowledge"
      /\ 1 \in 1 .. Len(requests) /\ Head(requests) = requests[1]
  BY Handled DEF FrameInv, HandleAcknowledgeFrame
<1>2. frame \in Frame /\ frame.game <= game
  BY <1>1 DEF Request, FrameInv, Ordered, AcknowledgedWereMade
<1>3. UNCHANGED <<phase, game, nextSequence>> /\ Acknowledge(frame)
  BY DEF HandleAcknowledgeFrame, core
<1> HIDE DEF frame
<1>4. /\ phase' \in {"Empty", "Paused", "Running", "Error"}
      /\ nextSequence' \in 1 .. MaxSequence + 1 /\ nextSequence' >= nextSequence
      /\ observer \in 1 .. MaxPage \cup {None} /\ unpresented \subseteq Frame
      /\ game \in Nat
  BY <1>3, Bounds DEF FrameInv, TypeOK
<1>5. CASE inFlight = None \/ inFlight.sequence # frame.sequence
  <2>1. /\ unpresented' = unpresented \ {frame}
        /\ UNCHANGED <<inFlight, latestPending, observer, transit>>
    BY <1>3, <1>5 DEF Acknowledge
  <2>2. Slots' /\ FirstGame' /\ latestPending' \in Frame \cup {None} /\ unpresented' \subseteq Frame
    BY <1>3, <1>4, <2>1 DEF FrameInv, TypeOK, Slots, FirstGame
  <2> QED
    BY <1>1, <1>3, <1>4, <2>1, <2>2, SlotsKeep
<1>6. CASE inFlight # None /\ inFlight.sequence = frame.sequence
  <2>1. inFlight \in Frame /\ inFlight.game = game
    BY <1>6 DEF FrameInv, TypeOK, Slots
  <2>2. game <= 1 => frame = inFlight
    <3>1. game <= 1 => frame.game = inFlight.game
      BY <1>2, <1>4, <2>1, Bounds DEF Frame
    <3> QED
      BY <1>2, <1>6, <2>1, <3>1 DEF Frame
  <2>3. game <= 1 => unpresented \ {frame} = {}
    BY <2>2 DEF FrameInv, FirstGame
  <2>4. CASE latestPending = None
    <3>1. /\ inFlight' = None /\ unpresented' = unpresented \ {frame}
          /\ UNCHANGED <<latestPending, observer, transit>>
      BY <1>3, <1>6, <2>4 DEF Acknowledge
    <3>2. Slots' /\ FirstGame' /\ latestPending' \in Frame \cup {None}
          /\ unpresented' \subseteq Frame
      BY <1>3, <1>4, <2>3, <2>4, <3>1 DEF FrameInv, Slots, FirstGame
    <3> QED
      BY <1>1, <1>3, <1>4, <3>1, <3>2, SlotsKeep
  <2>5. CASE latestPending # None
    <3>1. Publish(latestPending, None, unpresented \ {frame})
      BY <1>3, <1>6, <2>5 DEF Acknowledge
    <3>2. /\ latestPending \in Frame /\ latestPending.game = game
          /\ inFlight.sequence < latestPending.sequence
          /\ latestPending.sequence < nextSequence'
      BY <1>3, <1>4, <2>5, Bounds DEF FrameInv, TypeOK, Slots
    <3>3. unpresented \ {frame} \subseteq Frame
      BY <1>4
    <3>4. phase \in {"Paused", "Running"} => game >= 1
      BY DEF FrameInv, Slots
    <3> QED
      BY <1>1, <1>3, <1>4, <1>6, <2>3, <3>1, <3>2, <3>3, <3>4, PublishKeeps
  <2> QED
    BY <2>4, <2>5
<1> QED
  BY <1>5, <1>6

-----------------------------------------------------------------------------
(* The page.                                                                *)

LEMMA Sending ==
  ASSUME TypeOK, AcknowledgedWereMade, NEW request \in Request, Send(request), game' = game,
         request.op = "acknowledge" => request.frame.game <= game
  PROVE  requests' \in Seq(Request) /\ refused' \in BOOLEAN /\ AcknowledgedWereMade'
<1>1. requests \in Seq(Request) /\ refused \in BOOLEAN
  BY DEF TypeOK
<1>2. CASE requests' = Append(requests, request) /\ UNCHANGED refused
  <2>1. /\ requests' \in Seq(Request) /\ Len(requests') = Len(requests) + 1
        /\ Len(requests) \in Nat /\ requests'[Len(requests) + 1] = request
        /\ \A i \in 1 .. Len(requests) : requests'[i] = requests[i]
    BY <1>1, <1>2, AppendProperties, LenProperties
  <2>2. ASSUME NEW i \in 1 .. Len(requests'), requests'[i].op = "acknowledge"
        PROVE  requests'[i].frame.game <= game
    <3>1. CASE i \in 1 .. Len(requests)
      BY <2>1, <2>2, <3>1 DEF AcknowledgedWereMade
    <3>2. CASE i = Len(requests) + 1
      BY <2>1, <2>2, <3>2
    <3> QED
      BY <2>1, <3>1, <3>2
  <2> QED
    BY <1>1, <1>2, <2>1, <2>2 DEF AcknowledgedWereMade
<1>3. CASE refused' = TRUE /\ UNCHANGED requests
  <2>1. refused' \in BOOLEAN
    BY <1>3, Zenon
  <2> QED
    BY <1>1, <1>3, <2>1 DEF AcknowledgedWereMade
<1> QED
  BY <1>2, <1>3 DEF Send

LEMMA UserRequestKeeps ==
  ASSUME FrameInv, NEW op \in {"open", "start", "pause", "restart", "close"}, UserRequest(op)
  PROVE  FrameInv'
<1> DEFINE request == [op |-> op]
<1>1. request \in Request /\ request.op # "acknowledge"
  BY DEF Request
<1>2. /\ Send(request)
      /\ UNCHANGED <<phase, game, nextSequence, observer, inFlight, latestPending, unpresented,
                     page, transit, pendingFrame>>
  BY DEF UserRequest, core, delivery, canvas
<1> HIDE DEF request
<1>3. requests' \in Seq(Request) /\ refused' \in BOOLEAN /\ AcknowledgedWereMade'
  BY <1>1, <1>2, Sending DEF FrameInv, Ordered
<1>4. TypeOK'
  BY <1>2, <1>3 DEF FrameInv, TypeOK
<1>5. Slots' /\ FirstGame' /\ Ordered'
  BY <1>2, <1>3 DEF FrameInv, Slots, FirstGame, Ordered, Sent, Made, PictureMovesForward, Before
<1> QED
  BY <1>4, <1>5 DEF FrameInv

LEMMA ReceiveFrameKeeps == FrameInv /\ ReceiveFrame => FrameInv'
<1> SUFFICES ASSUME FrameInv, ReceiveFrame PROVE FrameInv'
  OBVIOUS
<1>1. /\ transit # <<>> /\ transit \in Seq(Frame)
      /\ pendingFrame' = Head(transit) /\ transit' = Tail(transit)
      /\ UNCHANGED <<phase, game, nextSequence, observer, inFlight, latestPending, unpresented,
                     page, requests, refused>>
  BY DEF ReceiveFrame, core, delivery, FrameInv, TypeOK
<1>2. /\ Len(transit) \in Nat /\ Len(transit) >= 1 /\ pendingFrame' = transit[1]
      /\ transit' \in Seq(Frame) /\ Len(transit') = Len(transit) - 1
      /\ \A i \in 1 .. Len(transit') : transit'[i] = transit[i + 1]
  BY <1>1, HeadTailProperties, EmptySeq, LenProperties
<1>3. pendingFrame' \in Frame /\ 1 \in 1 .. Len(transit)
  BY <1>1, <1>2, ElementOfSeq
<1>4. TypeOK'
  BY <1>1, <1>2, <1>3 DEF FrameInv, TypeOK
<1>5. Slots' /\ FirstGame' /\ AcknowledgedWereMade'
  BY <1>1 DEF FrameInv, Slots, FirstGame, Ordered, AcknowledgedWereMade
<1>6. (\A i \in 1 .. Len(transit) : Sent(transit[i]))' /\ (pendingFrame # None => Sent(pendingFrame))'
  <2>1. Sent(pendingFrame') /\ \A i \in 1 .. Len(transit') : Sent(transit'[i])
    BY <1>2, <1>3 DEF FrameInv, Ordered
  <2> QED
    BY <1>1, <2>1 DEF Sent, Made
<1>7. \A i, j \in 1 .. Len(transit') : i < j => Before(transit'[i], transit'[j])
  <2> TAKE i, j \in 1 .. Len(transit')
  <2>1. i + 1 \in 1 .. Len(transit) /\ j + 1 \in 1 .. Len(transit) /\ (i < j => i + 1 < j + 1)
    BY <1>2
  <2> QED
    BY <1>2, <2>1 DEF FrameInv, Ordered, PictureMovesForward
<1>8. transit' # <<>> => Before(pendingFrame', Head(transit'))
  <2> SUFFICES ASSUME transit' # <<>> PROVE Before(pendingFrame', Head(transit'))
    OBVIOUS
  <2>1. Head(transit') = transit'[1] /\ Len(transit') >= 1
    BY <1>2, HeadTailProperties, EmptySeq, LenProperties
  <2>2. Head(transit') = transit[2] /\ 2 \in 1 .. Len(transit)
    BY <1>2, <2>1
  <2> QED
    BY <1>2, <1>3, <2>2 DEF FrameInv, Ordered, PictureMovesForward
<1>9. Ordered'
  BY <1>5, <1>6, <1>7, <1>8 DEF Ordered, PictureMovesForward, Before
<1> QED
  BY <1>4, <1>5, <1>9 DEF FrameInv

LEMMA DrawKeeps == FrameInv /\ Draw => FrameInv'
<1> SUFFICES ASSUME FrameInv, Draw PROVE FrameInv'
  OBVIOUS
<1> DEFINE request == [op |-> "acknowledge", frame |-> pendingFrame]
<1>1. /\ pendingFrame # None /\ pendingFrame' = None /\ Send(request)
      /\ UNCHANGED <<phase, game, nextSequence, observer, inFlight, latestPending, unpresented,
                     page, transit>>
  BY DEF Draw, core, delivery
<1>2. pendingFrame \in Frame /\ Sent(pendingFrame) /\ game \in Nat
  BY <1>1, Bounds DEF FrameInv, TypeOK, Ordered
<1>3. request \in Request /\ request.frame.game <= game
  BY <1>2, Bounds DEF Request, Frame, Sent, Made
<1> HIDE DEF request
<1>4. requests' \in Seq(Request) /\ refused' \in BOOLEAN /\ AcknowledgedWereMade'
  BY <1>1, <1>3, Sending DEF FrameInv, Ordered
<1>5. TypeOK'
  BY <1>1, <1>4 DEF FrameInv, TypeOK
<1>6. Slots' /\ FirstGame' /\ Ordered'
  BY <1>1, <1>4 DEF FrameInv, Slots, FirstGame, Ordered, Sent, Made, PictureMovesForward, Before
<1> QED
  BY <1>5, <1>6 DEF FrameInv

LEMMA ReloadKeeps == FrameInv /\ Reload => FrameInv'
<1> SUFFICES ASSUME FrameInv, Reload PROVE FrameInv'
  OBVIOUS
<1> DEFINE request == [op |-> "subscribe", page |-> page']
<1>1. /\ page < MaxPage /\ page' = page + 1 /\ transit' = <<>> /\ pendingFrame' = None
      /\ Send(request)
      /\ UNCHANGED <<phase, game, nextSequence, observer, inFlight, latestPending, unpresented>>
  BY DEF Reload, core, delivery
<1>2. page' \in 1 .. MaxPage /\ request \in Request /\ request.op # "acknowledge"
  BY <1>1, Bounds DEF FrameInv, TypeOK, Request
<1> HIDE DEF request
<1>3. requests' \in Seq(Request) /\ refused' \in BOOLEAN /\ AcknowledgedWereMade'
  BY <1>1, <1>2, Sending DEF FrameInv, Ordered
<1>4. transit' \in Seq(Frame) /\ Len(transit') = 0
  BY <1>1, EmptySeq
<1>5. TypeOK'
  BY <1>1, <1>2, <1>3, <1>4 DEF FrameInv, TypeOK
<1>6. Slots' /\ FirstGame'
  BY <1>1 DEF FrameInv, Slots, FirstGame
<1>7. Ordered'
  BY <1>1, <1>3, <1>4 DEF Ordered, PictureMovesForward
<1> QED
  BY <1>5, <1>6, <1>7 DEF FrameInv

-----------------------------------------------------------------------------
\* Every step of the video keeps the strengthened invariant.
THEOREM FrameInductive == FrameInv /\ [Next]_vars => FrameInv'
<1> SUFFICES ASSUME FrameInv, [Next]_vars PROVE FrameInv'
  OBVIOUS
<1>1. CASE HandleRequest
  BY <1>1, ClearingKeeps, HandleStartKeeps, HandleAcknowledgeKeeps DEF HandleRequest
<1>2. CASE \/ Tick \/ ReceiveFrame \/ Draw \/ Reload
           \/ \E op \in {"open", "start", "pause", "restart", "close"} : UserRequest(op)
  BY <1>2, TickKeeps, ReceiveFrameKeeps, DrawKeeps, ReloadKeeps, UserRequestKeeps
<1>3. CASE UNCHANGED vars
  BY <1>3 DEF vars, core, delivery, canvas, FrameInv, TypeOK, Slots, FirstGame, Ordered, Sent,
              Made, PictureMovesForward, Before, AcknowledgedWereMade
<1> QED
  BY <1>1, <1>2, <1>3 DEF Next

\* A set without two elements has at most one.
LEMMA FirstGameAlone == FrameInv => SlotsFollowTheGame
<1> SUFFICES ASSUME FrameInv PROVE SlotsFollowTheGame
  OBVIOUS
<1>1. game <= 1 => Cardinality(unpresented) <= 1
  <2> SUFFICES ASSUME game <= 1 PROVE Cardinality(unpresented) <= 1
    OBVIOUS
  <2>1. unpresented = {} \/ unpresented = {inFlight}
    BY DEF FrameInv, FirstGame
  <2>2. CASE unpresented = {}
    BY <2>2, FS_EmptySet
  <2>3. CASE unpresented = {inFlight}
    <3>1. Cardinality(unpresented) = 1
      BY <2>3, FS_Singleton
    <3> QED
      BY <3>1
  <2> QED
    BY <2>1, <2>2, <2>3
<1> QED
  BY <1>1 DEF FrameInv, Slots, SlotsFollowTheGame

\* FrameQueue and the canvas keep their slots, queues and numbers in range.
THEOREM FrameTypeCorrect == Spec => []TypeOK
<1>1. FrameInv => TypeOK
  BY DEF FrameInv
<1> QED
  BY StartsOrdered, FrameInductive, <1>1, PTL DEF Spec

\* FrameQueue::offer and acknowledge: the slots hold pictures of the running game,
\* the pending one is the latest, and in the first game one is unacknowledged.
THEOREM SlotsFollow == Spec => []SlotsFollowTheGame
  BY StartsOrdered, FrameInductive, FirstGameAlone, PTL DEF Spec

\* publish_frame and FrameCanvas: the page never sees a picture again or an older
\* one after a newer one, whatever is restarted, reloaded or refused.
THEOREM PictureGoesForward == Spec => []PictureMovesForward
<1>1. FrameInv => PictureMovesForward
  BY DEF FrameInv, Ordered
<1> QED
  BY StartsOrdered, FrameInductive, <1>1, PTL DEF Spec
=============================================================================
