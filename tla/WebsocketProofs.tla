--------------------------- MODULE WebsocketProofs ---------------------------
(***************************************************************************)
(* The two threads of the websocket server: no event misses its handler,   *)
(* and the number of connections logged last is right, for any number of   *)
(* connections and messages.                                               *)
(***************************************************************************)
EXTENDS WebsocketServer, SequenceTheorems, WellFoundedInduction, TLAPS

(***************************************************************************)
(* The invariant.                                                          *)
(***************************************************************************)

(* A handler is registered, posted or still to be posted, and connections  *)
(* are only looked at when all are registered.                             *)
Underway ==
  /\ main \in Seq(Handler) /\ eventLoop \in Seq(Handler) /\ main_evt_loop \in Seq(Handler)
  /\ Handler \subseteq Elements(main) \cup Elements(eventLoop) \cup handlers
  /\ handlers \subseteq Handler
  /\ net # Unborn => main = <<>>
  /\ net = Unborn => \A c \in Conn : state[c] = "none"
  /\ \A c \in Conn : state[c] # "none" => main = <<>> /\ eventLoop = <<>>
  /\ net.at \in {"connect", "disconnect"} => main = <<>> /\ eventLoop = <<>>

(* A list that is not the one counted last will be counted.                *)
ToBeCounted ==
  reported # Len(openConnections) =>
    main_evt_loop # <<>> \/ net.at \in {"connect", "disconnect"}

WInv == Underway /\ ToBeCounted

(* NoGap, of connections that are not open yet or no longer as well.       *)
Gapless ==
  running => \A c \in Conn :
    /\ Elements(received[c]) = {k \in DOMAIN answers : c \in answers[k]}
    /\ \A j, k \in DOMAIN received[c] : j < k => received[c][j] < received[c][k]

CInv == TypeOK /\ ListExact /\ Gapless

(***************************************************************************)
(* Lists.                                                                  *)
(***************************************************************************)

(* Taking the first element leaves the others.                             *)
LEMMA TailElements ==
  ASSUME NEW S, NEW s \in Seq(S), s # <<>>
  PROVE  /\ Head(s) \in S /\ Tail(s) \in Seq(S)
         /\ Elements(s) = Elements(Tail(s)) \cup {Head(s)}
<1>1. Len(s) \in Nat \ {0} /\ DOMAIN s = 1..Len(s)
  BY EmptySeq, LenProperties
<1>2. /\ Head(s) \in S /\ Head(s) = s[1] /\ Tail(s) \in Seq(S) /\ Len(Tail(s)) = Len(s) - 1
      /\ \A j \in 1..Len(Tail(s)) : Tail(s)[j] = s[j + 1]
  BY HeadTailProperties
<1>3. DOMAIN Tail(s) = 1..(Len(s) - 1)
  BY <1>2, LenProperties
<1>4. ASSUME NEW k \in 1..Len(s)
      PROVE  s[k] \in Elements(Tail(s)) \cup {Head(s)}
  <2>1. CASE k = 1
    BY <1>2, <2>1
  <2>2. CASE k # 1
    <3>1. k - 1 \in 1..(Len(s) - 1) /\ (k - 1) + 1 = k
      BY <1>1, <2>2
    <3>2. Tail(s)[k - 1] = s[k]
      BY <1>2, <3>1
    <3> QED
      BY <1>3, <3>1, <3>2 DEF Elements
  <2> QED
    BY <2>1, <2>2
<1>5. ASSUME NEW j \in 1..(Len(s) - 1)
      PROVE  Tail(s)[j] \in Elements(s)
  <2>1. j + 1 \in 1..Len(s) /\ Tail(s)[j] = s[j + 1]
    BY <1>1, <1>2
  <2> QED
    BY <1>1, <2>1 DEF Elements
<1>6. Head(s) \in Elements(s)
  BY <1>1, <1>2 DEF Elements
<1> QED
  BY <1>1, <1>2, <1>3, <1>4, <1>5, <1>6 DEF Elements

(* Appending adds one.                                                     *)
LEMMA AppendElements ==
  ASSUME NEW S, NEW s \in Seq(S), NEW x \in S
  PROVE  /\ Append(s, x) \in Seq(S) /\ Append(s, x) # <<>>
         /\ Elements(Append(s, x)) = Elements(s) \cup {x}
<1>1. Len(s) \in Nat /\ DOMAIN s = 1..Len(s)
  BY LenProperties
<1>2. /\ Append(s, x) \in Seq(S) /\ Append(s, x) # <<>> /\ Len(Append(s, x)) = Len(s) + 1
      /\ \A j \in 1..Len(s) : Append(s, x)[j] = s[j]
      /\ Append(s, x)[Len(s) + 1] = x
  BY AppendProperties
<1>3. DOMAIN Append(s, x) = 1..(Len(s) + 1)
  BY <1>2, LenProperties
<1>4. 1..(Len(s) + 1) = 1..Len(s) \cup {Len(s) + 1}
  BY <1>1
<1> QED
  BY <1>1, <1>2, <1>3, <1>4 DEF Elements

(* No element twice: an element that is not there yet may be appended.     *)
Once(s) == \A j, k \in DOMAIN s : s[j] = s[k] => j = k

LEMMA AppendOnce ==
  ASSUME NEW S, NEW s \in Seq(S), NEW x \in S, Once(s), x \notin Elements(s)
  PROVE  Once(Append(s, x))
<1>1. Len(s) \in Nat /\ DOMAIN s = 1..Len(s)
  BY LenProperties
<1>2. /\ Append(s, x) \in Seq(S) /\ Len(Append(s, x)) = Len(s) + 1
      /\ \A j \in 1..Len(s) : Append(s, x)[j] = s[j]
      /\ Append(s, x)[Len(s) + 1] = x
  BY AppendProperties
<1>3. DOMAIN Append(s, x) = 1..(Len(s) + 1)
  BY <1>2, LenProperties
<1>4. \A j \in 1..Len(s) : s[j] # x
  BY <1>1 DEF Elements
<1>5. \A j \in 1..(Len(s) + 1) : j \in 1..Len(s) \/ j = Len(s) + 1
  BY <1>1
<1> QED
  BY <1>1, <1>2, <1>3, <1>4, <1>5 DEF Once

(* Every set of natural numbers has a least element.                       *)
NatLess == {ss \in Nat \X Nat : ss[1] < ss[2]}

LEMMA Least ==
  ASSUME NEW T, T \subseteq Nat, T # {}
  PROVE  \E m \in T : \A k \in T : m <= k
<1>1. NatLess = OpToRel(<, Nat)
  BY DEF NatLess, OpToRel
<1>2. IsWellFoundedOn(NatLess, Nat)
  BY <1>1, NatLessThanWellFounded
<1>3. PICK m \in T : \A k \in T : ~(<<k, m>> \in NatLess)
  BY <1>2, WFMin
<1>4. \A k \in T : ~(k < m)
  BY <1>3 DEF NatLess
<1> QED
  BY <1>4

(* What is kept of a list by Erase, after each of its first n elements.    *)
Kept(list, c, n, f) ==
  f = [k \in 0..n |->
        IF k = 0 THEN <<>>
        ELSE IF list[k] = c THEN f[k - 1] ELSE Append(f[k - 1], list[k])]

LEMMA KeptExists ==
  ASSUME NEW list, NEW c
  PROVE  \A n \in Nat : \E f : Kept(list, c, n, f)
<1> DEFINE T == {n \in Nat : ~ \E f : Kept(list, c, n, f)}
<1> SUFFICES ASSUME T # {} PROVE FALSE
  OBVIOUS
<1>1. PICK n \in T : \A k \in T : n <= k
  <2>1. T \subseteq Nat
    OBVIOUS
  <2> HIDE DEF T
  <2> QED
    BY <2>1, Least
<1>2. n \in Nat /\ n # 0
  <2>1. Kept(list, c, 0, [k \in 0..0 |-> <<>>])
    BY DEF Kept
  <2> QED
    BY <2>1
<1>3. PICK f : Kept(list, c, n - 1, f)
  <2>1. n - 1 \in Nat /\ ~(n <= n - 1)
    BY <1>2
  <2> QED
    BY <1>1, <2>1
<1> DEFINE g == [k \in 0..n |->
                  IF k < n THEN f[k]
                  ELSE IF list[k] = c THEN f[k - 1] ELSE Append(f[k - 1], list[k])]
<1>4. \A k \in 0..(n - 1) : g[k] = f[k] /\ k \in 0..n
  BY <1>2
<1>5. n - 1 \in 0..(n - 1) /\ n \in 0..n
  BY <1>2
<1>6. \A k \in 0..n : k \in 0..(n - 1) \/ k = n
  BY <1>2
<1>7. ASSUME NEW k \in 0..n
      PROVE  g[k] = IF k = 0 THEN <<>>
                    ELSE IF list[k] = c THEN g[k - 1] ELSE Append(g[k - 1], list[k])
  <2>1. CASE k \in 0..(n - 1)
    <3>1. f[k] = IF k = 0 THEN <<>>
                 ELSE IF list[k] = c THEN f[k - 1] ELSE Append(f[k - 1], list[k])
      <4>1. f = [i \in 0..(n - 1) |->
                  IF i = 0 THEN <<>>
                  ELSE IF list[i] = c THEN f[i - 1] ELSE Append(f[i - 1], list[i])]
        BY <1>3 DEF Kept
      <4> HIDE DEF g
      <4> QED
        BY <2>1, <4>1
    <3>2. g[k] = f[k] /\ (k # 0 => g[k - 1] = f[k - 1])
      <4>1. k # 0 => k - 1 \in 0..(n - 1)
        BY <1>2, <2>1
      <4> HIDE DEF g
      <4> QED
        BY <1>4, <2>1, <4>1
    <3> HIDE DEF g
    <3> QED
      BY <3>1, <3>2
  <2>2. CASE k = n
    <3>1. g[n] = IF list[n] = c THEN f[n - 1] ELSE Append(f[n - 1], list[n])
      BY <1>2, <1>5
    <3> HIDE DEF g
    <3> QED
      BY <1>2, <1>4, <1>5, <2>2, <3>1
  <2> QED
    BY <1>6, <2>1, <2>2
<1>8. g = [k \in 0..n |-> g[k]]
  OBVIOUS
<1> HIDE DEF g
<1>9. Kept(list, c, n, g)
  BY <1>7, <1>8 DEF Kept
<1> QED
  BY <1>9

(* Erase leaves the other elements of a list, each once.                   *)
LEMMA EraseElements ==
  ASSUME NEW S, NEW list \in Seq(S), NEW c, Once(list)
  PROVE  /\ Erase(list, c) \in Seq(S) /\ Once(Erase(list, c))
         /\ Elements(Erase(list, c)) = Elements(list) \ {c}
<1> DEFINE n == Len(list)
           Up(k) == {list[i] : i \in 1..k} \ {c}
           f == CHOOSE g : Kept(list, c, n, g)
           Good(k) == f[k] \in Seq(S) /\ Once(f[k]) /\ Elements(f[k]) = Up(k)
           T == {k \in 0..n : ~Good(k)}
<1>1. n \in Nat /\ DOMAIN list = 1..n /\ \A k \in 1..n : list[k] \in S
  BY LenProperties, ElementOfSeq
<1>2. Erase(list, c) = f[n]
  BY DEF Erase, Kept
<1>3. Kept(list, c, n, f)
  <2>1. \E g : Kept(list, c, n, g)
    BY <1>1, KeptExists
  <2> QED
    BY <2>1
<1> HIDE DEF f
<1>4. f[0] = <<>>
  BY <1>1, <1>3 DEF Kept
<1>5. \A k \in 1..n : f[k] = IF list[k] = c THEN f[k - 1] ELSE Append(f[k - 1], list[k])
  <2>1. ASSUME NEW k \in 1..n
        PROVE  f[k] = IF list[k] = c THEN f[k - 1] ELSE Append(f[k - 1], list[k])
    <3>1. k \in 0..n /\ k # 0
      BY <1>1
    <3>2. f = [i \in 0..n |->
                IF i = 0 THEN <<>>
                ELSE IF list[i] = c THEN f[i - 1] ELSE Append(f[i - 1], list[i])]
      BY <1>3 DEF Kept
    <3> QED
      BY <3>1, <3>2
  <2> QED
    BY <2>1
<1>6. T = {}
  <2> SUFFICES ASSUME T # {} PROVE FALSE
    OBVIOUS
  <2>1. PICK k \in T : \A j \in T : k <= j
    <3>1. T \subseteq Nat
      BY <1>1
    <3> HIDE DEF T
    <3> QED
      BY <3>1, Least
  <2>2. k \in 0..n /\ ~Good(k)
    OBVIOUS
  <2>3. Good(0)
    <3>1. Up(0) = {} /\ Elements(<<>>) = {} /\ Once(<<>>) /\ <<>> \in Seq(S)
      BY EmptySeq DEF Elements, Once
    <3> QED
      BY <1>4, <3>1
  <2>4. k \in 1..n /\ k - 1 \in 0..n /\ ~(k <= k - 1)
    BY <1>1, <2>2, <2>3
  <2>5. Good(k - 1)
    BY <2>1, <2>4
  <2>6. Up(k) = Up(k - 1) \cup ({list[k]} \ {c})
    <3>1. 1..k = 1..(k - 1) \cup {k}
      BY <1>1, <2>4
    <3> QED
      BY <3>1
  <2>7. list[k] \notin Up(k - 1)
    BY <1>1, <2>4 DEF Once
  <2>8. CASE list[k] = c
    BY <1>5, <2>2, <2>4, <2>5, <2>6, <2>8
  <2>9. CASE list[k] # c
    <3>1. f[k] = Append(f[k - 1], list[k]) /\ list[k] \in S
      BY <1>1, <1>5, <2>4, <2>9
    <3>2. /\ Append(f[k - 1], list[k]) \in Seq(S)
          /\ Elements(Append(f[k - 1], list[k])) = Elements(f[k - 1]) \cup {list[k]}
      BY <2>5, <3>1, AppendElements
    <3>3. Once(Append(f[k - 1], list[k]))
      BY <2>5, <2>7, <3>1, AppendOnce
    <3>4. Elements(f[k]) = Up(k)
      BY <2>5, <2>6, <2>9, <3>1, <3>2
    <3> QED
      BY <2>2, <3>1, <3>2, <3>3, <3>4
  <2> QED
    BY <2>8, <2>9
<1>7. Good(n)
  <2>1. n \in 0..n
    BY <1>1
  <2> QED
    BY <1>6, <2>1
<1>8. Up(n) = Elements(list) \ {c}
  BY <1>1 DEF Elements
<1> QED
  BY <1>2, <1>7, <1>8

(***************************************************************************)
(* The main thread.                                                        *)
(***************************************************************************)
LEMMA RegisterWInv ==
  ASSUME WInv, Register
  PROVE  WInv'
<1>1. /\ main # <<>> /\ main \in Seq(Handler) /\ eventLoop \in Seq(Handler)
      /\ eventLoop' = Append(eventLoop, Head(main)) /\ main' = Tail(main)
      /\ UNCHANGED <<main_evt_loop, reported, net, handlers, openConnections, state>>
  BY DEF Register, WInv, Underway
<1>2. /\ main' \in Seq(Handler) /\ Head(main) \in Handler
      /\ Elements(main) = Elements(main') \cup {Head(main)}
  BY <1>1, TailElements
<1>3. eventLoop' \in Seq(Handler) /\ Elements(eventLoop') = Elements(eventLoop) \cup {Head(main)}
  BY <1>1, <1>2, AppendElements
<1>4. Underway'
  BY <1>1, <1>2, <1>3 DEF WInv, Underway
<1> QED
  BY <1>1, <1>4 DEF WInv, ToBeCounted

LEMMA StartThreadWInv ==
  ASSUME WInv, StartThread
  PROVE  WInv'
<1>1. /\ main = <<>> /\ net = Unborn /\ net' = Idle
      /\ UNCHANGED <<main, main_evt_loop, reported, eventLoop, handlers, openConnections, state>>
  BY DEF StartThread, Registered
<1>2. \A c \in Conn : state[c] = "none"
  BY <1>1 DEF WInv, Underway
<1>3. net.at = "none" /\ net'.at = "loop"
  BY <1>1 DEF Unborn, Idle
<1>4. Underway'
  BY <1>1, <1>2, <1>3 DEF WInv, Underway
<1> QED
  BY <1>1, <1>3, <1>4 DEF WInv, ToBeCounted

(* The main thread counts.                                                 *)
LEMMA LogWInv ==
  ASSUME WInv, Log
  PROVE  WInv'
<1>1. /\ main_evt_loop # <<>> /\ main_evt_loop \in Seq(Handler)
      /\ main_evt_loop' = Tail(main_evt_loop)
      /\ reported' = Len(openConnections)
      /\ UNCHANGED <<main, net, eventLoop, handlers, openConnections, state>>
  BY DEF Log, WInv, Underway
<1>2. main_evt_loop' \in Seq(Handler)
  BY <1>1, TailElements
<1>3. Underway'
  BY <1>1, <1>2 DEF WInv, Underway
<1> QED
  BY <1>1, <1>3 DEF WInv, ToBeCounted

(***************************************************************************)
(* The network thread.                                                     *)
(***************************************************************************)
LEMMA RunPostedWInv ==
  ASSUME WInv, RunPosted
  PROVE  WInv'
<1>1. /\ eventLoop # <<>> /\ eventLoop \in Seq(Handler)
      /\ handlers' = handlers \cup {Head(eventLoop)} /\ eventLoop' = Tail(eventLoop)
      /\ UNCHANGED <<main, main_evt_loop, reported, net, openConnections, state>>
  BY DEF RunPosted, WInv, Underway
<1>2. /\ eventLoop' \in Seq(Handler) /\ Head(eventLoop) \in Handler
      /\ Elements(eventLoop) = Elements(eventLoop') \cup {Head(eventLoop)}
  BY <1>1, TailElements
<1>3. Underway'
  BY <1>1, <1>2 DEF WInv, Underway
<1> QED
  BY <1>1, <1>3 DEF WInv, ToBeCounted

(* Where a turn for a connection is taken, everything is registered.       *)
LEMMA InTurn ==
  ASSUME WInv, NEW c, NEW from, Turn(c, from)
  PROVE  /\ net = Idle /\ eventLoop = <<>> /\ main = <<>>
         /\ UNCHANGED <<main, main_evt_loop, reported, eventLoop, handlers>>
<1>1. Idle # Unborn
  <2>1. Idle.at # Unborn.at
    BY DEF Idle, Unborn
  <2> QED
    BY <2>1
<1> QED
  BY <1>1 DEF Turn, WInv, Underway

(* A turn that leaves the list as it is...                                 *)
LEMMA TurnKeeps ==
  ASSUME WInv, NEW c, NEW from, Turn(c, from), net' # Unborn, openConnections' = openConnections,
         net'.at \notin {"connect", "disconnect"}
  PROVE  WInv'
<1>1. /\ net = Idle /\ eventLoop = <<>> /\ main = <<>> /\ eventLoop' = <<>> /\ main' = <<>>
      /\ UNCHANGED <<main_evt_loop, reported, handlers>>
  BY InTurn
<1>2. Underway'
  BY <1>1 DEF WInv, Underway
<1> QED
  BY <1>1, <1>2 DEF WInv, ToBeCounted, Idle

(* ... and one that changes it.                                            *)
LEMMA TurnChanges ==
  ASSUME WInv, NEW c, NEW from, Turn(c, from), net'.at \in {"connect", "disconnect"}
  PROVE  WInv'
<1>1. /\ eventLoop' = <<>> /\ main' = <<>> /\ eventLoop = <<>> /\ main = <<>>
      /\ UNCHANGED <<main_evt_loop, reported, handlers>>
  BY InTurn
<1>2. net' # Unborn
  BY DEF Unborn
<1>3. Underway'
  BY <1>1, <1>2 DEF WInv, Underway
<1> QED
  BY <1>1, <1>3 DEF WInv, ToBeCounted

LEMMA NetworkTurnWInv ==
  ASSUME WInv, NEW c \in Conn, NetworkTurn(c)
  PROVE  WInv'
<1>0. Idle # Unborn /\ Idle.at \notin {"connect", "disconnect"}
  <2>1. Idle.at = "loop" /\ Unborn.at = "none"
    BY DEF Idle, Unborn
  <2> QED
    BY <2>1
<1>1. CASE onOpen(c)
  BY <1>1, TurnChanges DEF onOpen
<1>2. CASE onMessage(c)
  BY <1>0, <1>2, InTurn, TurnKeeps DEF onMessage
<1>3. CASE onStop(c)
  <2>1. net' = [at |-> "joining", conn |-> {c}] /\ openConnections' = openConnections
    BY <1>3 DEF onStop
  <2>2. net'.at = "joining" /\ net' # Unborn
    BY <2>1 DEF Unborn
  <2> QED
    BY <1>3, <2>1, <2>2, TurnKeeps DEF onStop
<1>4. CASE CloseFrame(c)
  BY <1>0, <1>4, InTurn, TurnKeeps DEF CloseFrame
<1>5. CASE Terminate(c)
  BY <1>0, <1>5, InTurn, TurnKeeps DEF Terminate
<1>6. CASE onClose(c)
  BY <1>6, TurnChanges DEF onClose
<1> QED
  BY <1>1, <1>2, <1>3, <1>4, <1>5, <1>6 DEF NetworkTurn

LEMMA JoinedWInv ==
  ASSUME WInv, Joined
  PROVE  WInv'
<1>1. /\ net.at = "joining" /\ net' = Idle
      /\ UNCHANGED <<main, main_evt_loop, reported, eventLoop, handlers, openConnections, state>>
  BY DEF Joined
<1>2. net # Unborn /\ net'.at = "loop" /\ net' # Unborn
  BY <1>1 DEF Unborn, Idle
<1>3. Underway'
  BY <1>1, <1>2 DEF WInv, Underway
<1> QED
  BY <1>1, <1>2, <1>3 DEF WInv, ToBeCounted

(* What a change of the list has registered for is posted to the main      *)
(* thread, whose handler is there.                                         *)
LEMMA RunHandlersWInv ==
  ASSUME WInv, RunHandlers
  PROVE  WInv'
<1>1. /\ net.at \in {"connect", "disconnect"} /\ net' = Idle
      /\ UNCHANGED <<main, reported, eventLoop, handlers, openConnections, state>>
  BY DEF RunHandlers
<1>2. net # Unborn /\ net'.at = "loop" /\ net' # Unborn
  BY <1>1 DEF Unborn, Idle
<1>3. main = <<>> /\ eventLoop = <<>> /\ main_evt_loop \in Seq(Handler)
  BY <1>1 DEF WInv, Underway
<1>4. net.at \in handlers /\ net.at \in Handler
  BY <1>1, <1>3 DEF WInv, Underway, Elements, Handler
<1>5. main_evt_loop' = Append(main_evt_loop, net.at)
  BY <1>4 DEF RunHandlers
<1>6. main_evt_loop' \in Seq(Handler) /\ main_evt_loop' # <<>>
  BY <1>3, <1>4, <1>5, AppendElements
<1>7. Underway'
  BY <1>1, <1>2, <1>3, <1>6 DEF WInv, Underway
<1> QED
  BY <1>6, <1>7 DEF WInv, ToBeCounted

LEMMA InitWInv ==
  ASSUME Init
  PROVE  WInv
<1>1. main = <<"connect", "disconnect", "message">> /\ main \in Seq(Handler)
  BY DEF Init, Handler
<1>2. Elements(main) = Handler
  <2>1. DOMAIN main = {1, 2, 3}
    BY <1>1
  <2> QED
    BY <1>1, <2>1 DEF Elements, Handler
<1>3. net.at = "none"
  BY DEF Init, Unborn
<1>4. Len(<<>>) = 0 /\ <<>> \in Seq(Handler)
  BY EmptySeq
<1> QED
  BY <1>1, <1>2, <1>3, <1>4 DEF Init, WInv, Underway, ToBeCounted

LEMMA StepWInv ==
  ASSUME WInv, [Next]_wvars
  PROVE  WInv'
<1>1. CASE UNCHANGED wvars
  BY <1>1 DEF wvars, sockets, WInv, Underway, ToBeCounted
<1>2. CASE \E c \in Conn : Client(c)
  <2>1. UNCHANGED <<main, main_evt_loop, reported, net, eventLoop, handlers, openConnections,
                    state>>
    BY <1>2 DEF Client
  <2> QED
    BY <2>1 DEF WInv, Underway, ToBeCounted
<1>3. CASE Main
  BY <1>3, RegisterWInv, StartThreadWInv, LogWInv DEF Main
<1>4. CASE Network
  BY <1>4, RunPostedWInv, JoinedWInv, RunHandlersWInv, NetworkTurnWInv DEF Network
<1> QED
  BY <1>1, <1>2, <1>3, <1>4 DEF Next

(***************************************************************************)
(* The connections.                                                        *)
(***************************************************************************)
LEMMA InitCInv ==
  ASSUME Init
  PROVE  CInv
<1>1. TypeOK
  <2>1. main = <<"connect", "disconnect", "message">> /\ main \in Seq(Handler)
    BY DEF Init, Handler
  <2>2. net \in [at : {"none", "loop", "joining"} \cup Handler, conn : SUBSET Conn]
    BY DEF Init, Unborn
  <2>3. MaxMessages \in Nat /\ 0 \in 0..MaxMessages
    BY ConnectionAssumption
  <2>4. \A S : <<>> \in Seq(S)
    BY EmptySeq
  <2> QED
    BY <2>1, <2>2, <2>3, <2>4 DEF Init, TypeOK
<1>2. Elements(<<>>) = {} /\ DOMAIN <<>> = {}
  BY DEF Elements
<1>3. ListExact
  BY <1>2 DEF Init, ListExact
<1>4. Gapless
  BY <1>2 DEF Init, Gapless
<1> QED
  BY <1>1, <1>3, <1>4 DEF CInv

(* If no connection in the list makes it throw, broadcastMessage reaches   *)
(* those that are open, and each gets a new answer.                        *)
LEMMA BroadcastCInv ==
  ASSUME CInv, running, Broadcast, UNCHANGED <<state, openConnections>>
  PROVE  /\ answers' \in Seq(SUBSET Conn) /\ received' \in [Conn -> Seq(Nat)]
         /\ process' \in {"running", "terminated"} /\ Gapless'
<1> DEFINE list == openConnections
           bad == {k \in DOMAIN list : state[list[k]] # "open"}
           sent == IF bad = {} THEN Elements(list)
                   ELSE {list[j] : j \in {i \in DOMAIN list : \A k \in bad : i < k}}
           new == Len(answers) + 1
           open == {c \in Conn : state[c] = "open"}
<1>0. /\ answers \in Seq(SUBSET Conn) /\ received \in [Conn -> Seq(Nat)] /\ open \in SUBSET Conn
      /\ list \in Seq(Conn) /\ DOMAIN state = Conn
  BY DEF CInv, TypeOK
<1>1. /\ received' = [c \in Conn |-> IF c \in sent THEN Append(received[c], new)
                                     ELSE received[c]]
      /\ answers' = Append(answers, open)
      /\ process' = IF bad = {} THEN "running" ELSE "terminated"
  BY DEF Broadcast, Reached
<1>2. new \in Nat /\ Len(answers) \in Nat /\ DOMAIN answers = 1..Len(answers)
  BY <1>0, LenProperties
<1> HIDE DEF sent, new, open, bad
<1>3. answers' \in Seq(SUBSET Conn)
  BY <1>0, <1>1, AppendProperties
<1>4. received' \in [Conn -> Seq(Nat)]
  BY <1>0, <1>1, <1>2, AppendProperties
<1>5. ASSUME process' = "running", NEW c \in Conn
      PROVE  /\ Elements(received'[c]) = {k \in DOMAIN answers' : c \in answers'[k]}
             /\ \A j, k \in DOMAIN received'[c] : j < k => received'[c][j] < received'[c][k]
  <2>1. bad = {}
    BY <1>1, <1>5
  <2>2. sent = open
    <3>1. sent = Elements(list) /\ \A k \in DOMAIN list : state[list[k]] = "open"
      BY <2>1 DEF bad, sent
    <3>2. Elements(list) = {d \in Conn : state[d] \in {"open", "closing", "closed"}}
      BY DEF CInv, ListExact
    <3>3. \A d \in Elements(list) : state[d] = "open"
      BY <3>1 DEF Elements
    <3> QED
      BY <3>1, <3>2, <3>3 DEF open
  <2>3. /\ DOMAIN answers' = 1..new
        /\ answers'[new] = open
        /\ \A k \in DOMAIN answers : answers'[k] = answers[k]
        /\ 1..new = (DOMAIN answers) \cup {new} /\ new \notin DOMAIN answers
    <3>1. /\ Len(answers') = new /\ answers' \in Seq(SUBSET Conn)
          /\ answers'[Len(answers) + 1] = open
          /\ \A k \in 1..Len(answers) : answers'[k] = answers[k]
      BY <1>0, <1>1, <1>3, AppendProperties DEF new
    <3>2. DOMAIN answers' = 1..new
      BY <3>1, LenProperties
    <3> QED
      BY <1>2, <3>1, <3>2 DEF new
  <2>4. /\ Elements(received[c]) = {k \in DOMAIN answers : c \in answers[k]}
        /\ \A j, k \in DOMAIN received[c] : j < k => received[c][j] < received[c][k]
    BY DEF CInv, Gapless
  <2>5. CASE c \in open
    <3> DEFINE r == received[c]
    <3>1. received'[c] = Append(r, new) /\ r \in Seq(Nat)
      BY <1>0, <1>1, <2>2, <2>5
    <3>2. Elements(received'[c]) = Elements(r) \cup {new}
      BY <1>2, <3>1, AppendElements
    <3>3. {k \in DOMAIN answers' : c \in answers'[k]}
            = {k \in DOMAIN answers : c \in answers[k]} \cup {new}
      BY <2>3, <2>5
    <3>4. /\ Len(r) \in Nat /\ DOMAIN r = 1..Len(r) /\ DOMAIN Append(r, new) = 1..(Len(r) + 1)
          /\ \A k \in 1..Len(r) : Append(r, new)[k] = r[k]
          /\ Append(r, new)[Len(r) + 1] = new
      <4>1. Append(r, new) \in Seq(Nat) /\ Len(Append(r, new)) = Len(r) + 1
        BY <1>2, <3>1, AppendProperties
      <4> QED
        BY <1>2, <3>1, <4>1, AppendProperties, LenProperties
    <3>5. \A k \in 1..Len(r) : r[k] \in 1..Len(answers)
      BY <1>2, <2>4, <3>4 DEF Elements
    <3>6. ASSUME NEW j \in 1..(Len(r) + 1), NEW k \in 1..(Len(r) + 1), j < k
          PROVE  Append(r, new)[j] < Append(r, new)[k]
      <4>1. j \in 1..Len(r) /\ (k \in 1..Len(r) \/ k = Len(r) + 1)
        BY <3>4, <3>6
      <4>2. CASE k \in 1..Len(r)
        BY <2>4, <3>4, <3>6, <4>1, <4>2
      <4>3. CASE k = Len(r) + 1
        <5>1. r[j] \in 1..Len(answers)
          BY <3>5, <4>1
        <5>2. r[j] < new
          BY <1>2, <5>1 DEF new
        <5> QED
          BY <3>4, <4>1, <4>3, <5>2
      <4> QED
        BY <4>1, <4>2, <4>3
    <3> QED
      BY <2>4, <3>1, <3>2, <3>3, <3>4, <3>6
  <2>6. CASE c \notin open
    <3>1. received'[c] = received[c]
      BY <1>0, <1>1, <2>2, <2>6
    <3>2. {k \in DOMAIN answers' : c \in answers'[k]} = {k \in DOMAIN answers : c \in answers[k]}
      BY <2>3, <2>6
    <3> QED
      BY <2>4, <3>1, <3>2
  <2> QED
    BY <2>5, <2>6
<1>6. Gapless'
  BY <1>5 DEF Gapless, running
<1> QED
  BY <1>1, <1>3, <1>4, <1>6

(* Where no answer is sent, none is missed.                                *)
LEMMA SilentCInv ==
  ASSUME CInv, UNCHANGED <<answers, received, process>>
  PROVE  Gapless'
BY DEF CInv, Gapless, running

(* The main thread, and what is posted to the network thread.              *)
LEMMA PostedCInv ==
  ASSUME CInv, Main \/ RunPosted \/ RunHandlers
  PROVE  CInv'
<1>0. TypeOK /\ ListExact
  BY DEF CInv
<1>1. UNCHANGED <<openConnections, state, sockets, answers, received, process>>
  BY DEF Main, Register, StartThread, Log, RunPosted, RunHandlers
<1>2. UNCHANGED <<peer, inbox, asked>>
  BY <1>1 DEF sockets
<1>3. Idle \in [at : {"none", "loop", "joining"} \cup Handler, conn : SUBSET Conn]
  BY DEF Idle
<1>4. /\ main' \in Seq(Handler) /\ main_evt_loop' \in Seq(Handler) /\ reported' \in Nat
      /\ net' \in [at : {"none", "loop", "joining"} \cup Handler, conn : SUBSET Conn]
      /\ eventLoop' \in Seq(Handler) /\ handlers' \subseteq Handler
  <2>0. /\ main \in Seq(Handler) /\ main_evt_loop \in Seq(Handler) /\ reported \in Nat
        /\ net \in [at : {"none", "loop", "joining"} \cup Handler, conn : SUBSET Conn]
        /\ eventLoop \in Seq(Handler) /\ handlers \subseteq Handler
        /\ Len(openConnections) \in Nat
    BY <1>0, LenProperties DEF TypeOK
  <2>1. CASE Register
    <3>1. Head(main) \in Handler /\ Tail(main) \in Seq(Handler)
      BY <2>0, <2>1, TailElements DEF Register
    <3> QED
      BY <2>0, <2>1, <3>1, AppendElements DEF Register
  <2>2. CASE StartThread
    BY <1>3, <2>0, <2>2 DEF StartThread
  <2>3. CASE Log
    BY <2>0, <2>3, TailElements DEF Log
  <2>4. CASE RunPosted
    BY <2>0, <2>4, TailElements DEF RunPosted
  <2>5. CASE RunHandlers
    <3>1. net.at \in Handler
      BY <2>5 DEF RunHandlers, Handler
    <3>2. main_evt_loop' \in Seq(Handler)
      BY <2>0, <2>5, <3>1, AppendElements DEF RunHandlers
    <3> QED
      BY <1>3, <2>0, <2>5, <3>2 DEF RunHandlers
  <2> QED
    BY <2>1, <2>2, <2>3, <2>4, <2>5 DEF Main
<1>5. TypeOK'
  BY <1>0, <1>1, <1>2, <1>4 DEF TypeOK
<1>6. ListExact'
  BY <1>0, <1>1 DEF ListExact
<1> QED
  BY <1>1, <1>5, <1>6, SilentCInv DEF CInv

LEMMA ClientCInv ==
  ASSUME CInv, NEW c \in Conn, Client(c)
  PROVE  CInv'
<1>0. TypeOK /\ ListExact /\ MaxMessages \in Nat
  BY ConnectionAssumption DEF CInv
<1>1. UNCHANGED <<main, main_evt_loop, reported, net, eventLoop, handlers, openConnections,
                 state, answers, received, process>>
  BY DEF Client
<1>2. /\ peer' \in [Conn -> {"away", "there", "left"}]
      /\ inbox' \in [Conn -> Seq({"isready", "stop"})] /\ asked' \in [Conn -> 0..MaxMessages]
  <2>0. /\ peer \in [Conn -> {"away", "there", "left"}]
        /\ inbox \in [Conn -> Seq({"isready", "stop"})] /\ asked \in [Conn -> 0..MaxMessages]
    BY <1>0 DEF TypeOK
  <2>1. CASE UNCHANGED <<inbox, asked>> /\ peer' \in {[peer EXCEPT ![c] = "there"],
                                                     [peer EXCEPT ![c] = "left"]}
    BY <2>0, <2>1
  <2>2. ASSUME UNCHANGED peer, asked[c] < MaxMessages, NEW m \in {"isready", "stop"},
               inbox' = [inbox EXCEPT ![c] = Append(inbox[c], m)],
               asked' = [asked EXCEPT ![c] = asked[c] + 1]
        PROVE  /\ peer' \in [Conn -> {"away", "there", "left"}]
               /\ inbox' \in [Conn -> Seq({"isready", "stop"})]
               /\ asked' \in [Conn -> 0..MaxMessages]
    <3>1. asked[c] + 1 \in 0..MaxMessages
      BY <1>0, <2>0, <2>2
    <3>2. Append(inbox[c], m) \in Seq({"isready", "stop"})
      BY <2>0, AppendElements
    <3> QED
      BY <2>0, <2>2, <3>1, <3>2
  <2> QED
    BY <2>1, <2>2 DEF Client
<1>3. TypeOK'
  BY <1>0, <1>1, <1>2 DEF TypeOK
<1>4. ListExact'
  BY <1>0, <1>1 DEF ListExact
<1> QED
  BY <1>1, <1>3, <1>4, SilentCInv DEF CInv

(* A turn of the loop that does not change the list.                       *)
LEMMA TurnTypes ==
  ASSUME TypeOK, NEW c \in Conn, NEW from, Turn(c, from), UNCHANGED <<peer, asked>>,
         net' \in [at : {"none", "loop", "joining"} \cup Handler, conn : SUBSET Conn],
         openConnections' \in Seq(Conn),
         state' \in [Conn -> {"none", "open", "closing", "closed", "gone"}],
         inbox' \in [Conn -> Seq({"isready", "stop"})],
         answers' \in Seq(SUBSET Conn), received' \in [Conn -> Seq(Nat)],
         process' \in {"running", "terminated"}
  PROVE  TypeOK'
BY DEF TypeOK, Turn

LEMMA NetworkTurnCInv ==
  ASSUME CInv, NEW c \in Conn, NetworkTurn(c)
  PROVE  CInv'
<1> DEFINE Nets == [at : {"none", "loop", "joining"} \cup Handler, conn : SUBSET Conn]
           States == {"none", "open", "closing", "closed", "gone"}
<1>0. /\ TypeOK /\ ListExact /\ net \in Nets /\ openConnections \in Seq(Conn)
      /\ state \in [Conn -> States] /\ inbox \in [Conn -> Seq({"isready", "stop"})]
      /\ answers \in Seq(SUBSET Conn) /\ received \in [Conn -> Seq(Nat)]
      /\ process \in {"running", "terminated"}
  BY DEF CInv, TypeOK
<1>1. \A at \in {"joining"} \cup Handler : [at |-> at, conn |-> {c}] \in Nets
  OBVIOUS
<1>2. /\ Elements(openConnections) = {d \in Conn : state[d] \in {"open", "closing", "closed"}}
      /\ Once(openConnections)
  BY <1>0 DEF ListExact, Once
<1>3. \A m \in Seq({"isready", "stop"}) \ {<<>>} :
        [inbox EXCEPT ![c] = Tail(m)] \in [Conn -> Seq({"isready", "stop"})]
  BY <1>0, TailElements
<1>4. CASE onOpen(c)
  <2>1. /\ Turn(c, "none") /\ state[c] = "none"
        /\ state' = [state EXCEPT ![c] = "open"]
        /\ openConnections' = Append(openConnections, c)
        /\ net' = [at |-> "connect", conn |-> {c}]
        /\ UNCHANGED <<sockets, answers, received, process>>
    BY <1>4 DEF onOpen, Turn
  <2>2. c \notin Elements(openConnections)
    BY <1>2, <2>1
  <2>3. /\ openConnections' \in Seq(Conn) /\ Once(openConnections')
        /\ Elements(openConnections') = Elements(openConnections) \cup {c}
    <3>1. Once(Append(openConnections, c))
      BY <1>0, <1>2, <2>2, AppendOnce
    <3>2. /\ Append(openConnections, c) \in Seq(Conn)
          /\ Elements(Append(openConnections, c)) = Elements(openConnections) \cup {c}
      BY <1>0, AppendElements
    <3> QED
      BY <2>1, <3>1, <3>2
  <2>4. ListExact'
    <3>1. Elements(openConnections)'
            = {d \in Conn : state'[d] \in {"open", "closing", "closed"}}
      BY <1>0, <1>2, <2>1, <2>3 DEF Elements
    <3> QED
      BY <2>3, <3>1 DEF ListExact, Once
  <2>5. TypeOK'
    BY <1>0, <1>1, <2>1, <2>3, TurnTypes DEF sockets, Handler
  <2> QED
    BY <2>1, <2>4, <2>5, SilentCInv DEF CInv
<1>5. CASE onMessage(c)
  <2>1. /\ Turn(c, "open") /\ Broadcast /\ running
        /\ inbox[c] # <<>> /\ inbox' = [inbox EXCEPT ![c] = Tail(inbox[c])]
        /\ UNCHANGED <<openConnections, state, peer, asked, net>>
    BY <1>5 DEF onMessage, Turn
  <2>2. /\ answers' \in Seq(SUBSET Conn) /\ received' \in [Conn -> Seq(Nat)]
        /\ process' \in {"running", "terminated"} /\ Gapless'
    BY <2>1, BroadcastCInv
  <2>3. TypeOK'
    BY <1>0, <1>3, <2>1, <2>2, TurnTypes
  <2>4. ListExact'
    BY <1>0, <2>1 DEF ListExact
  <2> QED
    BY <2>2, <2>3, <2>4 DEF CInv
<1>6. CASE onStop(c)
  <2>1. /\ Turn(c, "open") /\ net' = [at |-> "joining", conn |-> {c}]
        /\ inbox[c] # <<>> /\ inbox' = [inbox EXCEPT ![c] = Tail(inbox[c])]
        /\ UNCHANGED <<openConnections, state, peer, asked, answers, received, process>>
    BY <1>6 DEF onStop
  <2>2. TypeOK'
    BY <1>0, <1>1, <1>3, <2>1, TurnTypes
  <2>3. ListExact'
    BY <1>0, <2>1 DEF ListExact
  <2> QED
    BY <2>1, <2>2, <2>3, SilentCInv DEF CInv
<1>7. CASE CloseFrame(c) \/ Terminate(c)
  <2>1. PICK from \in {"open", "closing"}, to \in {"closing", "closed"} :
          /\ Turn(c, from) /\ state[c] = from /\ state' = [state EXCEPT ![c] = to]
          /\ UNCHANGED <<openConnections, sockets, net, answers, received, process>>
    BY <1>7 DEF CloseFrame, Terminate, Turn
  <2>2. TypeOK'
    BY <1>0, <2>1, TurnTypes DEF sockets
  <2>3. {d \in Conn : state'[d] \in {"open", "closing", "closed"}}
          = {d \in Conn : state[d] \in {"open", "closing", "closed"}}
    BY <1>0, <2>1
  <2>4. ListExact'
    BY <1>0, <2>1, <2>3 DEF ListExact
  <2> QED
    BY <2>1, <2>2, <2>4, SilentCInv DEF CInv
<1>8. CASE onClose(c)
  <2>1. /\ Turn(c, "closed") /\ state' = [state EXCEPT ![c] = "gone"]
        /\ openConnections' = Erase(openConnections, c)
        /\ net' = [at |-> "disconnect", conn |-> {c}]
        /\ UNCHANGED <<sockets, answers, received, process>>
    BY <1>8 DEF onClose
  <2>2. /\ openConnections' \in Seq(Conn) /\ Once(openConnections')
        /\ Elements(openConnections') = Elements(openConnections) \ {c}
    BY <1>0, <1>2, <2>1, EraseElements
  <2>3. ListExact'
    <3>1. Elements(openConnections)'
            = {d \in Conn : state'[d] \in {"open", "closing", "closed"}}
      BY <1>0, <1>2, <2>1, <2>2 DEF Elements
    <3> QED
      BY <2>2, <3>1 DEF ListExact, Once
  <2>4. TypeOK'
    BY <1>0, <1>1, <2>1, <2>2, TurnTypes DEF sockets, Handler
  <2> QED
    BY <2>1, <2>3, <2>4, SilentCInv DEF CInv
<1> QED
  BY <1>4, <1>5, <1>6, <1>7, <1>8 DEF NetworkTurn

LEMMA JoinedCInv ==
  ASSUME CInv, Joined
  PROVE  CInv'
<1>1. /\ running /\ net' = Idle /\ Broadcast
      /\ UNCHANGED <<main, main_evt_loop, reported, eventLoop, handlers, openConnections, state>>
      /\ UNCHANGED <<peer, inbox, asked>>
  BY DEF Joined, sockets
<1>2. /\ answers' \in Seq(SUBSET Conn) /\ received' \in [Conn -> Seq(Nat)]
      /\ process' \in {"running", "terminated"} /\ Gapless'
  BY <1>1, BroadcastCInv
<1>3. TypeOK'
  BY <1>1, <1>2 DEF CInv, TypeOK, Idle
<1>4. ListExact'
  BY <1>1 DEF CInv, ListExact
<1> QED
  BY <1>2, <1>3, <1>4 DEF CInv

LEMMA StepCInv ==
  ASSUME CInv, [Next]_wvars
  PROVE  CInv'
<1>1. CASE UNCHANGED wvars
  <2>1. /\ UNCHANGED <<main, main_evt_loop, reported, net, eventLoop, handlers>>
        /\ UNCHANGED <<openConnections, state, peer, inbox, asked, answers, received, process>>
    BY <1>1 DEF wvars, sockets
  <2>2. TypeOK'
    BY <2>1 DEF CInv, TypeOK
  <2>3. ListExact'
    BY <2>1 DEF CInv, ListExact
  <2> QED
    BY <2>1, <2>2, <2>3, SilentCInv DEF CInv
<1>2. CASE Next
  BY <1>2, PostedCInv, JoinedCInv, NetworkTurnCInv, ClientCInv DEF Next, Network
<1> QED
  BY <1>1, <1>2

(***************************************************************************)
(* The theorems.                                                           *)
(***************************************************************************)

(* Between them, the threads keep track of every handler and every change  *)
(* of the list.                                                            *)
THEOREM ThreadsInductive == Safe => []WInv
<1>1. Init => WInv
  BY InitWInv
<1>2. WInv /\ [Next]_wvars => WInv'
  BY StepWInv
<1> QED
  BY <1>1, <1>2, PTL DEF Safe

(* No event of a connection finds a handler missing (src/uciws.cpp,        *)
(* 63-94, and src/server.hpp, 26-45).                                      *)
THEOREM HandlersFirst == Safe => []NoEventMissed
<1>1. WInv => NoEventMissed
  <2>1. Elements(<<>>) = {}
    BY DEF Elements
  <2> QED
    BY <2>1 DEF WInv, Underway, NoEventMissed
<1> QED
  BY <1>1, ThreadsInductive, PTL

(* The number of connections logged last is right when nothing is left to  *)
(* be logged (src/uciws.cpp, 66-81).                                       *)
THEOREM CountedRight == Safe => []LastCountRight
<1>1. WInv => LastCountRight
  BY DEF WInv, ToBeCounted, LastCountRight, Idle
<1> QED
  BY <1>1, ThreadsInductive, PTL

(* The list and the answers, for any number of connections that come, ask  *)
(* and leave in any order.                                                 *)
THEOREM ConnectionsInductive == Safe => []CInv
<1>1. Init => CInv
  BY InitCInv
<1>2. CInv /\ [Next]_wvars => CInv'
  BY StepCInv
<1> QED
  BY <1>1, <1>2, PTL DEF Safe

(* Every variable of src/server.cpp and its threads keeps its type.        *)
THEOREM WellTyped == Safe => []TypeOK
<1>1. CInv => TypeOK
  BY DEF CInv
<1> QED
  BY <1>1, ConnectionsInductive, PTL

(* openConnections has every connection once, from its onOpen to its       *)
(* onClose (src/server.cpp, 52-98).                                        *)
THEOREM ListIsExact == Safe => []ListExact
<1>1. CInv => ListExact
  BY DEF CInv
<1> QED
  BY <1>1, ConnectionsInductive, PTL

(* broadcastMessage leaves nobody out, as long as it does not throw        *)
(* (src/server.cpp, 42-50).                                                *)
THEOREM NobodyLeftOut == Safe => []NoGap
<1>1. CInv => NoGap
  BY DEF CInv, ListExact, Gapless, NoGap
<1> QED
  BY <1>1, ConnectionsInductive, PTL
=============================================================================
