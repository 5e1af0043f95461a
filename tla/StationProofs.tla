--------------------------- MODULE StationProofs ----------------------------
(***************************************************************************)
(* The station, for any number of scan list entries and any values         *)
(* (MCStation).  Joining and leaving: cfg80211, the driver and core 0      *)
(* agree on the connection (StationAgrees), and the answer handed to       *)
(* cfg80211 is that of its own request (StationAnswersAreOwn), until a     *)
(* command is given up.  The invariant names the command under way and,    *)
(* beside it, the events still on their way from core 0, which are at most *)
(* two.  Settings: core 0 follows what the stack asks for (SettingsFollow).*)
(* The invariant says where the one command core 0 has is, and that every  *)
(* command under way carries what the stack asked for last.                *)
(***************************************************************************)
EXTENDS MCStation, Sequences, TLAPS

-----------------------------------------------------------------------------
(* What is on its way from core 0 *)

\* The events core 0 may have on their way, by name.
Authenticated == <<"authenticated">>
Associated == <<"associated">>
Refused == <<"refused">>
Lost == <<"disconnected">>
AssociatedLost == <<"associated", "disconnected">>

\* All the events that are on their way together.
News == {<< >>, Authenticated, Associated, Refused, Lost, AssociatedLost}

\* The events h behind the answer of a command, and in front of it.
Behind(r, h) == <<r>> \o h
Before(h) == h \o <<"ok">>

\* What travels from core 0 to the driver.
Words == Seq({"ok", "fail", "authenticated", "associated", "refused", "disconnected"})

\* Sequences of the same length and elements are the same (to_host, the list of
\* frames received).
LEMMA SameSequence ==
    ASSUME NEW S, NEW s \in Seq(S), NEW t \in Seq(S), Len(s) = Len(t),
           \A i \in 1 .. Len(s) : s[i] = t[i]
    PROVE  s = t
<1>1. s = [i \in 1 .. Len(s) |-> s[i]] /\ t = [i \in 1 .. Len(t) |-> t[i]]
  OBVIOUS
<1> QED BY <1>1

\* An answer put behind the frames on their way.
LEMMA OneMore ==
    ASSUME NEW S, NEW s \in Seq(S), "ok" \in S
    PROVE  /\ s \o <<"ok">> \in Seq(S) /\ Len(s \o <<"ok">>) = Len(s) + 1
           /\ (s \o <<"ok">>)[Len(s) + 1] = "ok"
           /\ \A k \in 1 .. Len(s) : (s \o <<"ok">>)[k] = s[k]
OBVIOUS

\* The event of leaving and the answer put behind the frames on their way, as
\* core 0 does for a disconnect.
LEMMA TwoMore ==
    ASSUME NEW S, NEW s \in Seq(S), "ok" \in S, "disconnected" \in S
    PROVE  /\ s \o <<"disconnected", "ok">> \in Seq(S)
           /\ Len(s \o <<"disconnected", "ok">>) = Len(s) + 2
           /\ (s \o <<"disconnected", "ok">>)[Len(s) + 1] = "disconnected"
           /\ (s \o <<"disconnected", "ok">>)[Len(s) + 2] = "ok"
           /\ \A k \in 1 .. Len(s) : (s \o <<"disconnected", "ok">>)[k] = s[k]
OBVIOUS

\* What Append does (core 0 sends one more frame).
LEMMA Longer ==
    ASSUME NEW S, NEW s \in Seq(S), NEW e \in S
    PROVE  /\ Append(s, e) \in Seq(S) /\ Len(Append(s, e)) = Len(s) + 1
           /\ Append(s, e)[Len(s) + 1] = e
           /\ \A k \in 1 .. Len(s) : Append(s, e)[k] = s[k]
OBVIOUS

\* What taking the first frame does (process_cmd_resp and process_cmd_event
\* take the oldest).
LEMMA Shorter ==
    ASSUME NEW S, NEW s \in Seq(S), s # << >>
    PROVE  /\ Tail(s) \in Seq(S) /\ Len(Tail(s)) = Len(s) - 1 /\ Head(s) = s[1]
           /\ Len(s) \in Nat \ {0}
           /\ \A k \in 1 .. Len(s) - 1 : Tail(s)[k] = s[k + 1]
OBVIOUS

\* Lists of one and two frames, as they grow and shrink.
LEMMA Singles ==
    ASSUME NEW a, NEW b
    PROVE  /\ <<a>> # << >> /\ Head(<<a>>) = a /\ Tail(<<a>>) = << >>
           /\ <<a, b>> # << >> /\ Head(<<a, b>>) = a /\ Tail(<<a, b>>) = <<b>>
           /\ Append(<< >>, a) = <<a>> /\ Append(<<a>>, b) = <<a, b>>
<1>1. Append(<<a>>, b) = <<a, b>>
  <2> DEFINE s == <<a>>
             t == Append(s, b)
             u == <<a, b>>
  <2>1. s \in Seq({a, b}) /\ Len(s) = 1 /\ s[1] = a
    OBVIOUS
  <2>2. u \in Seq({a, b}) /\ Len(u) = 2 /\ u[1] = a /\ u[2] = b
    OBVIOUS
  <2> HIDE DEF s, u
  <2>3. t \in Seq({a, b}) /\ Len(t) = 2 /\ t[1] = a /\ t[2] = b
    <3> DEFINE Both == {a, b}
    <3>1. b \in Both /\ s \in Seq(Both)
      BY <2>1
    <3> HIDE DEF Both
    <3>2. /\ Append(s, b) \in Seq(Both) /\ Len(Append(s, b)) = Len(s) + 1
          /\ Append(s, b)[Len(s) + 1] = b
          /\ \A k \in 1 .. Len(s) : Append(s, b)[k] = s[k]
      BY <3>1, Longer
    <3>3. Len(s) + 1 = 2 /\ 1 \in 1 .. Len(s)
      BY <2>1
    <3> QED BY <3>2, <3>3, <2>1, Zenon DEF Both
  <2> HIDE DEF t
  <2>4. t = u
    BY <2>2, <2>3, SameSequence
  <2> QED BY <2>4 DEF s, t, u
<1> QED BY <1>1

\* The events in order of their arrival.
LEMMA NewsGrows ==
    /\ Append(<< >>, "authenticated") = Authenticated
    /\ Append(<< >>, "associated") = Associated
    /\ Append(<< >>, "refused") = Refused
    /\ Append(<< >>, "disconnected") = Lost
    /\ Append(Associated, "disconnected") = AssociatedLost
BY Singles, Zenon DEF Authenticated, Associated, Refused, Lost, AssociatedLost

\* What the receive work finds when it takes the first event.
LEMMA NewsTaken ==
    /\ Authenticated # << >> /\ Head(Authenticated) = "authenticated" /\ Tail(Authenticated) = << >>
    /\ Associated # << >> /\ Head(Associated) = "associated" /\ Tail(Associated) = << >>
    /\ Refused # << >> /\ Head(Refused) = "refused" /\ Tail(Refused) = << >>
    /\ Lost # << >> /\ Head(Lost) = "disconnected" /\ Tail(Lost) = << >>
    /\ AssociatedLost # << >> /\ Head(AssociatedLost) = "associated" /\ Tail(AssociatedLost) = Lost
BY Singles DEF Authenticated, Associated, Refused, Lost, AssociatedLost

\* Events are frames of core 0.
LEMMA NewsAreWords == News \subseteq Words
BY DEF News, Words, Authenticated, Associated, Refused, Lost, AssociatedLost

\* Events behind an answer: the answer comes first, and a further event goes to
\* the end.
LEMMA BehindIs ==
    ASSUME NEW r \in {"ok", "fail"}, NEW h \in Words
    PROVE  /\ Behind(r, h) # << >> /\ Head(Behind(r, h)) = r /\ Tail(Behind(r, h)) = h
           /\ \A m \in {"authenticated", "associated", "refused", "disconnected"} :
                Append(Behind(r, h), m) = Behind(r, Append(h, m))
           /\ Append(<< >>, r) = Behind(r, << >>)
<1> DEFINE W == {"ok", "fail", "authenticated", "associated", "refused", "disconnected"}
<1>1. <<r>> \in Seq(W) /\ Len(<<r>>) = 1 /\ <<r>>[1] = r /\ h \in Seq(W)
  BY DEF Words
<1> DEFINE s == <<r>>
<1> HIDE DEF s
<1>2. s \o h # << >> /\ Head(s \o h) = r /\ Tail(s \o h) = h
  BY <1>1 DEF s
<1>3. ASSUME NEW m \in W PROVE Append(s \o h, m) = s \o Append(h, m)
  BY <1>1 DEF s
<1>4. Append(<< >>, r) = s \o << >>
  BY <1>1, Singles DEF s
<1> QED BY <1>2, <1>3, <1>4 DEF Behind, s

\* Events in front of the answer of a disconnect: they come first, and core 0
\* appends the answer.
LEMMA BeforeIs ==
    ASSUME NEW h \in Words
    PROVE  /\ Before(h) # << >>
           /\ h = << >> => Head(Before(h)) = "ok" /\ Tail(Before(h)) = << >>
           /\ h # << >> => Head(Before(h)) = Head(h) /\ Tail(Before(h)) = Before(Tail(h))
           /\ h \o <<"ok">> = Before(h)
           /\ h \o <<"disconnected", "ok">> = Before(Append(h, "disconnected"))
<1> DEFINE W == {"ok", "fail", "authenticated", "associated", "refused", "disconnected"}
           s == <<"ok">>
           t == <<"disconnected", "ok">>
<1>1. s \in Seq(W) /\ Len(s) = 1 /\ s[1] = "ok" /\ h \in Seq(W)
  BY DEF Words
<1>2. t \in Seq(W) /\ Len(t) = 2 /\ t[1] = "disconnected" /\ t[2] = "ok"
  OBVIOUS
<1> HIDE DEF s, t
<1> DEFINE a == h \o s
<1>3. /\ a \in Seq(W) /\ Len(a) = Len(h) + 1 /\ a[Len(h) + 1] = "ok"
      /\ \A k \in 1 .. Len(h) : a[k] = h[k]
  <2>1. "ok" \in W
    OBVIOUS
  <2> QED BY <1>1, <2>1, OneMore, Zenon DEF s
<1>4. h \in Seq(W) /\ Len(h) \in Nat /\ (Len(h) = 0 <=> h = << >>)
  BY <1>1
<1> HIDE DEF a
<1>5. a # << >>
  BY <1>3, <1>4
<1>6. /\ Tail(a) \in Seq(W) /\ Len(Tail(a)) = Len(h) /\ Head(a) = a[1]
      /\ \A k \in 1 .. Len(h) : Tail(a)[k] = a[k + 1]
  <2>1. /\ Tail(a) \in Seq(W) /\ Len(Tail(a)) = Len(a) - 1 /\ Head(a) = a[1]
        /\ \A k \in 1 .. Len(a) - 1 : Tail(a)[k] = a[k + 1]
    BY <1>3, <1>5, Shorter, Zenon
  <2>2. Len(a) - 1 = Len(h)
    BY <1>3, <1>4
  <2> QED BY <2>1, <2>2, Zenon
<1>7. ASSUME h = << >> PROVE Head(a) = "ok" /\ Tail(a) = << >>
  <2>1. Len(h) = 0 /\ Len(h) + 1 = 1
    BY <1>4, <1>7
  <2>2. Tail(a) \in Seq(W) /\ Len(Tail(a)) = 0
    BY <2>1, <1>6, Zenon
  <2>3. Tail(a) = << >>
    <3> DEFINE b == Tail(a)
    <3> HIDE DEF b
    <3>1. b \in Seq(W) /\ Len(b) = 0 => b = << >>
      OBVIOUS
    <3> QED BY <3>1, <2>2, Zenon DEF b
  <2> QED BY <2>1, <2>3, <1>3, <1>6, Zenon
<1>8. ASSUME h # << >> PROVE Head(a) = Head(h) /\ Tail(a) = Tail(h) \o s
  <2> DEFINE c == Tail(h)
             b == c \o s
  <2>1. /\ c \in Seq(W) /\ Len(c) = Len(h) - 1 /\ Head(h) = h[1]
        /\ \A k \in 1 .. Len(h) - 1 : c[k] = h[k + 1]
    BY <1>4, <1>8, Shorter, Zenon
  <2> HIDE DEF c
  <2>2. /\ b \in Seq(W) /\ Len(b) = Len(c) + 1 /\ b[Len(c) + 1] = "ok"
        /\ \A k \in 1 .. Len(c) : b[k] = c[k]
    BY <2>1, OneMore DEF s
  <2> HIDE DEF b
  <2>3. Len(b) = Len(h) /\ b[Len(h)] = "ok" /\ Len(c) + 1 = Len(h)
    BY <2>1, <2>2, <1>4
  <2>4. \A k \in 1 .. Len(h) : Tail(a)[k] = b[k]
    <3> SUFFICES ASSUME NEW k \in 1 .. Len(h) PROVE a[k + 1] = b[k]
      BY <1>6, Zenon
    <3>1. CASE k = Len(h)
      BY <3>1, <1>3, <2>3, Zenon
    <3>2. CASE k # Len(h)
      <4>1. k + 1 \in 1 .. Len(h) /\ k \in 1 .. Len(c) /\ k \in 1 .. Len(h) - 1
        BY <3>2, <1>4, <2>3, <2>1
      <4> QED BY <4>1, <1>3, <2>1, <2>2, Zenon
    <3> QED BY <3>1, <3>2, Zenon
  <2>5. Tail(a) = b
    BY <2>2, <2>3, <2>4, <1>6, SameSequence, Zenon
  <2>6. 1 \in 1 .. Len(h)
    BY <1>4, <1>8
  <2> QED BY <2>1, <2>5, <2>6, <1>3, <1>6, Zenon DEF b, c
<1>9. h \o t = Append(h, "disconnected") \o s
  <2> DEFINE u == Append(h, "disconnected")
             b == h \o t
             c == u \o s
  <2>1. /\ u \in Seq(W) /\ Len(u) = Len(h) + 1 /\ u[Len(h) + 1] = "disconnected"
        /\ \A k \in 1 .. Len(h) : u[k] = h[k]
    BY <1>1, Longer
  <2> HIDE DEF u
  <2>2. /\ b \in Seq(W) /\ Len(b) = Len(h) + 2
        /\ b[Len(h) + 1] = "disconnected" /\ b[Len(h) + 2] = "ok"
        /\ \A k \in 1 .. Len(h) : b[k] = h[k]
    BY <1>1, TwoMore DEF t
  <2>3. /\ c \in Seq(W) /\ Len(c) = Len(u) + 1 /\ c[Len(u) + 1] = "ok"
        /\ \A k \in 1 .. Len(u) : c[k] = u[k]
    BY <2>1, OneMore DEF s
  <2> HIDE DEF b, c
  <2>4. /\ Len(c) = Len(h) + 2 /\ Len(u) + 1 = Len(h) + 2
        /\ Len(h) + 1 \in 1 .. Len(u)
        /\ \A k \in 1 .. Len(h) : k \in 1 .. Len(u)
    BY <1>4, <2>1, <2>3
  <2>5. \A k \in 1 .. Len(b) : b[k] = c[k]
    <3> SUFFICES ASSUME NEW k \in 1 .. Len(b) PROVE b[k] = c[k]
      BY Zenon
    <3>1. k \in 1 .. Len(h) \/ k = Len(h) + 1 \/ k = Len(h) + 2
      BY <2>2, <1>4
    <3> QED BY <3>1, <2>1, <2>2, <2>3, <2>4, Zenon
  <2>6. b = c
    <3>1. b \in Seq(W) /\ c \in Seq(W) /\ Len(b) = Len(c)
      BY <2>2, <2>3, <2>4, Zenon
    <3> QED BY <3>1, <2>5, SameSequence, Zenon
  <2> QED BY <2>6, Zenon DEF b, c, u
<1> QED BY <1>5, <1>7, <1>8, <1>9, Zenon DEF Before, s, t, a

-----------------------------------------------------------------------------
(* The invariant of Station *)

\* cfg80211 has a connection.
Connected == current_bss # None

\* How far joining is: what is on its way to the driver (h), core 0's state
\* (f), the supplicant's state (st), and the entry of the connection (b).
Progress(h, f, st, b) ==
    \/ h = << >> /\ f = "idle" /\ st = "idle" /\ b = None
    \/ h = << >> /\ f = "auth" /\ st = "auth" /\ b = None
    \/ h = Authenticated /\ f = "idle" /\ st = "auth" /\ b = None
    \/ h = << >> /\ f = "idle" /\ st = "authed" /\ b = None
    \/ h = << >> /\ f = "assoc" /\ st = "assoc" /\ b = None
    \/ h = Associated /\ f = "up" /\ st = "assoc" /\ b = None
    \/ h = AssociatedLost /\ f = "idle" /\ st = "assoc" /\ b = None
    \/ h = Refused /\ f = "idle" /\ st = "assoc" /\ b = None
    \/ h = << >> /\ f = "up" /\ st = "up" /\ b # None
    \/ h = Lost /\ f = "idle" /\ st = "up" /\ b # None

\* The supplicant's states while it joins, and the commands it joins with.
Joining == {"auth", "assoc"}

\* No command is under way.
Quiet(h) ==
    /\ caller = None /\ answer = None /\ to_fw = << >> /\ to_host = h
    /\ Progress(h, fw, sme.state, current_bss)

\* A request to join is on its way to core 0.
AskSent(h) ==
    /\ caller # None /\ caller.code \in Joining
    /\ to_fw = <<caller.code>> /\ answer = None /\ to_host = << >> /\ h = << >>
    /\ fw = "idle" /\ sme.state = caller.code /\ ~Connected

\* Core 0 has refused it.
AskRefused(h) ==
    /\ caller # None /\ caller.code \in Joining
    /\ to_fw = << >> /\ answer = None /\ to_host = Behind("fail", << >>) /\ h = << >>
    /\ fw = "idle" /\ ~Connected

\* Core 0 has taken it up; events may follow the answer.
AskTaken(h) ==
    /\ caller # None /\ caller.code \in Joining
    /\ to_fw = << >> /\ answer = None /\ to_host = Behind("ok", h)
    /\ Progress(h, fw, sme.state, current_bss)

\* The refusal has arrived.
AskFailed(h) ==
    /\ caller # None /\ caller.code \in Joining
    /\ to_fw = << >> /\ answer = "fail" /\ to_host = << >> /\ h = << >>
    /\ fw = "idle" /\ ~Connected

\* The consent has arrived, and events may have, before its caller runs.
AskOk(h) ==
    /\ caller # None /\ caller.code \in Joining
    /\ to_fw = << >> /\ answer = "ok" /\ to_host = h
    /\ Progress(h, fw, sme.state, current_bss)

\* The supplicant is idle, or was told of a connection since it left.
LeftOrUp == sme.state \in {"idle", "up"} /\ (sme.state = "up" => Connected)

\* A request to leave is on its way; what the station has left goes on.
LeaveSent(h) ==
    /\ caller # None /\ caller.code = "disconnect"
    /\ to_fw = <<"disconnect">> /\ answer = None /\ to_host = h
    /\ \E st \in {"idle", "auth", "authed", "assoc", "up"} : Progress(h, fw, st, current_bss)
    /\ LeftOrUp

\* Core 0 has left; the events are in front of the answer.
LeaveTaken(h) ==
    /\ caller # None /\ caller.code = "disconnect"
    /\ to_fw = << >> /\ answer = None /\ to_host = Before(h)
    /\ fw = "idle" /\ h # Associated /\ (h # Lost => ~Connected)
    /\ LeftOrUp

\* The answer has arrived, after the events.
LeaveDone(h) ==
    /\ caller # None /\ caller.code = "disconnect"
    /\ to_fw = << >> /\ answer = "ok" /\ to_host = << >> /\ h = << >>
    /\ fw = "idle" /\ ~Connected /\ sme.state = "idle"

\* The stages of a command, with the events h on their way.
Stage(h) ==
    \/ Quiet(h)
    \/ AskSent(h) \/ AskRefused(h) \/ AskTaken(h) \/ AskFailed(h) \/ AskOk(h)
    \/ LeaveSent(h) \/ LeaveTaken(h) \/ LeaveDone(h)

\* The caller of an association is still asleep.
Associating == caller # None /\ caller.code = "assoc"

\* The outcome of an association is still to come.
Outcome(h) == fw = "assoc" \/ to_fw = <<"assoc">> \/ h \in {Associated, AssociatedLost, Refused}

\* The driver's pointer names the entry that is joined, and its copy of the
\* elements is that of the association whose outcome is to come.
Names(h) ==
    /\ sme.state \in {"auth", "authed", "assoc"} => bss \in St!Entries /\ sme.bss = bss
    /\ caller # None /\ caller.code # "disconnect" => bss \in St!Entries /\ caller.bss = bss
    /\ Outcome(h) => /\ bss \in St!Entries
                     /\ assoc_req_ie = attempt /\ assoc_req_ie_len = attempt
                     /\ Associating \/ bss \in held

\* What the supplicant may be at, and what a sleeping command may be.
SmeStates == [state : {"idle", "auth", "authed", "assoc", "up"}, bss : St!Entries \cup {None}]
Callers == [code : {"auth", "assoc", "disconnect"}, bss : St!Entries \cup {None}]

\* The inductive invariant: until a command is given up, its stage and the
\* names it goes by are right for some events on their way.
StationInv ==
    /\ given_up \in BOOLEAN
    /\ \/ given_up
       \/ /\ sme \in SmeStates /\ caller \in Callers \cup {None}
          /\ \E h \in News : Stage(h) /\ Names(h)

\* The lists of events are told apart.
LEMMA NewsDiffer ==
    /\ Authenticated \in News /\ Associated \in News /\ Refused \in News /\ Lost \in News
    /\ AssociatedLost \in News /\ << >> \in News
    /\ Authenticated # Associated /\ Authenticated # Refused /\ Authenticated # Lost
    /\ Authenticated # AssociatedLost /\ Associated # Refused /\ Associated # Lost
    /\ Associated # AssociatedLost /\ Refused # Lost /\ Refused # AssociatedLost
    /\ Lost # AssociatedLost
<1>1. "authenticated" # "associated" /\ "authenticated" # "refused" /\ "authenticated" # "disconnected"
      /\ "associated" # "refused" /\ "associated" # "disconnected" /\ "refused" # "disconnected"
  OBVIOUS
<1> QED BY <1>1, NewsTaken, Zenon DEF News

\* An event core 0 sends, and what it leaves core 0 in.
CoreZeroEvent(f, g, m) ==
    \/ f = "auth" /\ g = "idle" /\ m = "authenticated"
    \/ f = "assoc" /\ g = "up" /\ m = "associated"
    \/ f = "assoc" /\ g = "idle" /\ m = "refused"
    \/ f = "up" /\ g = "idle" /\ m = "disconnected"

\* An event core 0 sends keeps how far joining is: core 0 sends one only in the
\* state it is for.
LEMMA ProgressGrows ==
    ASSUME NEW h \in News, NEW f, NEW g, NEW m, NEW st, NEW b,
           Progress(h, f, st, b), CoreZeroEvent(f, g, m)
    PROVE  /\ Append(h, m) \in News /\ Progress(Append(h, m), g, st, b)
           /\ g # "assoc" /\ m \in {"authenticated", "associated", "refused", "disconnected"}
           /\ Append(h, m) \in {Associated, AssociatedLost, Refused} => f = "assoc" \/ h = Associated
<1>1. CASE f = "auth" /\ g = "idle" /\ m = "authenticated"
  BY <1>1, NewsGrows, NewsDiffer DEF Progress
<1>2. CASE f = "assoc" /\ g = "up" /\ m = "associated"
  BY <1>2, NewsGrows, NewsDiffer DEF Progress
<1>3. CASE f = "assoc" /\ g = "idle" /\ m = "refused"
  BY <1>3, NewsGrows, NewsDiffer DEF Progress
<1>4. CASE f = "up" /\ g = "idle" /\ m = "disconnected"
  BY <1>4, NewsGrows, NewsDiffer, Zenon DEF Progress
<1> QED BY <1>1, <1>2, <1>3, <1>4 DEF CoreZeroEvent

\* What the receive work makes of an event.
LEMMA ProgressTakes ==
    ASSUME NEW h \in News, NEW f, NEW st, NEW b, Progress(h, f, st, b), h # << >>
    PROVE  /\ Tail(h) \in News /\ f # "assoc" /\ Tail(h) \notin {Associated, AssociatedLost, Refused}
           /\ Head(h) = "authenticated" => st = "auth" /\ Progress(Tail(h), f, "authed", b)
           /\ Head(h) = "associated" =>
                (\A d : d # None => Progress(Tail(h), f, "up", d)) /\ h \in {Associated, AssociatedLost}
           /\ Head(h) = "refused" => Progress(Tail(h), f, "idle", b) /\ h = Refused
           /\ Head(h) = "disconnected" => Progress(Tail(h), f, "idle", None)
           /\ Head(h) \in {"authenticated", "associated", "refused", "disconnected"}
<1>1. CASE h = Authenticated
  BY <1>1, NewsTaken, NewsDiffer, Zenon DEF Progress
<1>2. CASE h = Associated
  BY <1>2, NewsTaken, NewsDiffer, Zenon DEF Progress
<1>3. CASE h = AssociatedLost
  BY <1>3, NewsTaken, NewsDiffer, Zenon DEF Progress
<1>4. CASE h = Refused
  BY <1>4, NewsTaken, NewsDiffer, Zenon DEF Progress
<1>5. CASE h = Lost
  BY <1>5, NewsTaken, NewsDiffer, Zenon DEF Progress
<1> QED BY <1>1, <1>2, <1>3, <1>4, <1>5, Zenon DEF News

-----------------------------------------------------------------------------
(* The steps of Station *)

\* The driver starts with no connection, no command and no events.
LEMMA StationInit == St!Init => StationInv
<1> SUFFICES ASSUME St!Init PROVE StationInv
  OBVIOUS
<1>1. sme \in SmeStates /\ sme.state = "idle" /\ caller = None /\ ~Connected /\ fw = "idle"
  BY DEF St!Init, SmeStates, Connected
<1>2. Quiet(<< >>)
  BY <1>1, Zenon DEF St!Init, Quiet, Progress
<1>3. Names(<< >>)
  <2>1. ~Outcome(<< >>)
    BY <1>1, NewsTaken, Singles, ZenonT(30) DEF Outcome, St!Init
  <2> QED BY <2>1, <1>1, Zenon DEF Names
<1> QED BY <1>1, <1>2, <1>3, NewsDiffer, Zenon DEF StationInv, Stage, St!Init

\* The steps that touch only the scan list, or end the driver's life.
LEMMA ScanListInv ==
    ASSUME StationInv, UNCHANGED <<held, current_bss, sme, bss, assoc_req_ie, assoc_req_ie_len, caller,
                                   answer, to_fw, to_host, fw, attempt, given_up>>
    PROVE  StationInv'
BY DEF StationInv, Stage, Quiet, AskSent, AskRefused, AskTaken, AskFailed, AskOk, LeaveSent,
       LeaveTaken, LeaveDone, LeftOrUp, Connected, Progress, Names, Outcome, Associating, SmeStates,
       Callers, St!Entries

\* The invariant, opened.
LEMMA SomeStage ==
    ASSUME StationInv, ~given_up
    PROVE  /\ sme \in SmeStates /\ caller \in Callers \cup {None} /\ Connected \in BOOLEAN
           /\ \E h \in News : Stage(h) /\ Names(h)
           /\ given_up = FALSE
BY Zenon DEF StationInv, Connected

\* With no command under way, how far joining is.
LEMMA WhenQuiet ==
    ASSUME StationInv, ~given_up, caller = None
    PROVE  \E h \in News : Quiet(h) /\ Names(h)
BY SomeStage, Zenon DEF Stage, Quiet, AskSent, AskRefused, AskTaken, AskFailed, AskOk, LeaveSent,
       LeaveTaken, LeaveDone

\* A sleeping command and an entry are not the absence of one.
LEMMA CallersAreNotNone == None \notin Callers /\ None \notin St!Entries
BY StationAssumption DEF Callers, St!Entries

\* esp_cfg80211_authenticate takes the entry and queues its command.
LEMMA AuthenticateInv ==
    ASSUME StationInv, ~given_up, NEW e \in St!Entries, St!esp_cfg80211_authenticate(e)
    PROVE  StationInv'
<1>1. PICK h \in News : Quiet(h) /\ Names(h)
  BY WhenQuiet, Zenon DEF St!esp_cfg80211_authenticate
<1>2. h = << >> /\ fw = "idle" /\ ~Connected /\ sme.state = "idle" /\ answer = None
      /\ to_fw = << >> /\ to_host = << >>
  BY <1>1, Zenon DEF Quiet, Progress, St!esp_cfg80211_authenticate, Connected
<1>3. /\ sme' = [state |-> "auth", bss |-> e] /\ bss' = e
      /\ caller' = [code |-> "auth", bss |-> e] /\ to_fw' = Append(to_fw, "auth")
      /\ UNCHANGED <<answer, to_host, fw, current_bss, given_up>>
  BY Zenon DEF St!esp_cfg80211_authenticate, St!cmd_auth_request, St!prepare_command_request, St!cfgVars
<1>4. /\ sme' \in SmeStates /\ sme'.state = "auth" /\ sme'.bss = e
      /\ caller' \in Callers /\ caller'.code = "auth" /\ caller'.bss = e
  BY <1>3 DEF SmeStates, Callers
<1>5. to_fw' = <<"auth">> /\ caller' # None /\ ~Connected'
  BY <1>2, <1>3, <1>4, Singles, CallersAreNotNone, Zenon DEF Connected
<1>6. AskSent(<< >>)'
  BY <1>2, <1>3, <1>4, <1>5, Zenon DEF AskSent, Joining
<1>7. <<"auth">> # <<"assoc">>
  OBVIOUS
<1>8. ~Outcome(<< >>)'
  BY <1>2, <1>3, <1>5, <1>7, NewsTaken, Zenon DEF Outcome
<1>9. Names(<< >>)'
  BY <1>3, <1>4, <1>8, Zenon DEF Names, St!Entries
<1> QED BY <1>3, <1>4, <1>6, <1>9, NewsDiffer, SomeStage, Zenon DEF StationInv, Stage

\* esp_cfg80211_associate keeps a copy of the elements and queues its command.
LEMMA AssociateInv ==
    ASSUME StationInv, ~given_up, NEW e \in St!Entries, NEW len \in ElementSizes,
           St!esp_cfg80211_associate(e, len)
    PROVE  StationInv'
<1>1. PICK h \in News : Quiet(h) /\ Names(h)
  BY WhenQuiet, Zenon DEF St!esp_cfg80211_associate
<1>2. sme.state = "authed" /\ sme.bss = e /\ caller = None
  BY DEF St!esp_cfg80211_associate
<1>3. h = << >> /\ fw = "idle" /\ ~Connected /\ answer = None /\ to_fw = << >> /\ to_host = << >>
  <2>1. "authed" # "idle" /\ "authed" # "auth" /\ "authed" # "assoc" /\ "authed" # "up"
    OBVIOUS
  <2> QED BY <1>1, <1>2, <2>1, Zenon DEF Quiet, Progress, Connected
<1>4. bss = e
  BY <1>1, <1>2, Zenon DEF Names
<1>5. UNCHANGED <<current_bss, bss, given_up, held>>
  BY Zenon DEF St!esp_cfg80211_associate, St!cfgVars
<1>6. ~Connected'
  BY <1>3, <1>5, Zenon DEF Connected
<1>7. CASE /\ attempt' = len /\ assoc_req_ie' = len /\ assoc_req_ie_len' = len
           /\ St!prepare_command_request("assoc", e)
  <2>1. /\ caller' = [code |-> "assoc", bss |-> e] /\ to_fw' = Append(to_fw, "assoc")
        /\ UNCHANGED <<answer, to_host, fw>>
    BY <1>7, Zenon DEF St!prepare_command_request
  <2>2. caller' \in Callers /\ caller'.code = "assoc" /\ caller'.bss = e
    BY <2>1 DEF Callers
  <2>3. to_fw' = <<"assoc">> /\ caller' # None
    BY <1>3, <2>1, <2>2, Singles, CallersAreNotNone, Zenon
  <2>4. sme' = [state |-> "assoc", bss |-> e]
    BY <2>3, Zenon DEF St!esp_cfg80211_associate
  <2>5. sme' \in SmeStates /\ sme'.state = "assoc" /\ sme'.bss = e
    BY <2>4 DEF SmeStates
  <2>6. AskSent(<< >>)'
    BY <1>3, <1>6, <2>1, <2>2, <2>3, <2>5, Zenon DEF AskSent, Joining
  <2>7. Names(<< >>)'
    BY <1>4, <1>5, <1>7, <2>2, <2>3, <2>5, Zenon DEF Names, St!Entries, Associating
  <2> QED BY <1>5, <2>2, <2>5, <2>6, <2>7, NewsDiffer, SomeStage, Zenon DEF StationInv, Stage
<1>8. CASE assoc_req_ie' = None /\ UNCHANGED <<assoc_req_ie_len, attempt, St!wireVars>>
  <2>1. UNCHANGED <<caller, answer, to_fw, to_host, fw>>
    BY <1>8, Zenon DEF St!wireVars
  <2>2. sme' = [state |-> "idle", bss |-> None]
    BY <2>1, <1>2, Zenon DEF St!esp_cfg80211_associate
  <2>3. sme' \in SmeStates /\ sme'.state = "idle"
    BY <2>2 DEF SmeStates
  <2>4. Quiet(<< >>)'
    BY <1>2, <1>3, <1>6, <2>1, <2>3, Zenon DEF Quiet, Progress, Connected
  <2>5. ~Outcome(<< >>)'
    BY <1>3, <2>1, NewsTaken, Singles, Zenon DEF Outcome
  <2>6. Names(<< >>)'
    BY <1>2, <2>1, <2>3, <2>5, Zenon DEF Names
  <2> QED BY <1>2, <1>5, <2>1, <2>3, <2>4, <2>6, NewsDiffer, SomeStage, Zenon DEF StationInv, Stage
<1> QED BY <1>7, <1>8, Zenon DEF St!esp_cfg80211_associate, St!cmd_assoc_request

\* Deauthentication, disassociation and disconnect queue one command
\* (cmd_disconnect_request).
LEMMA LeaveInv == ASSUME StationInv, ~given_up, St!Leave PROVE StationInv'
<1>1. PICK h \in News : Quiet(h) /\ Names(h)
  BY WhenQuiet, Zenon DEF St!Leave
<1>2. /\ sme' = [state |-> "idle", bss |-> None]
      /\ caller' = [code |-> "disconnect", bss |-> None] /\ to_fw' = Append(to_fw, "disconnect")
      /\ UNCHANGED <<answer, to_host, fw, current_bss, held, bss, assoc_req_ie, assoc_req_ie_len,
                     attempt, given_up>>
  BY Zenon DEF St!Leave, St!cmd_disconnect_request, St!prepare_command_request, St!cfgVars, St!privVars
<1>3. /\ sme' \in SmeStates /\ sme'.state = "idle"
      /\ caller' \in Callers /\ caller'.code = "disconnect"
  BY <1>2 DEF SmeStates, Callers
<1>4. caller' # None /\ to_fw' = <<"disconnect">> /\ (Connected' <=> Connected)
  BY <1>1, <1>2, <1>3, Singles, CallersAreNotNone, Zenon DEF Quiet, Connected
<1>5. sme.state \in {"idle", "auth", "authed", "assoc", "up"}
  BY SomeStage DEF SmeStates
<1>6. LeaveSent(h)'
  <2>1. Progress(h, fw, sme.state, current_bss)
    BY <1>1, Zenon DEF Quiet
  <2>2. Progress(h, fw', sme.state, current_bss')
    BY <2>1, <1>2, <1>4, Zenon DEF Progress
  <2>3. LeftOrUp'
    BY <1>3, Zenon DEF LeftOrUp
  <2> QED BY <1>1, <1>2, <1>3, <1>4, <1>5, <2>2, <2>3, Zenon DEF LeaveSent, Quiet
<1>7. Names(h)'
  <2>1. <<"disconnect">> # <<"assoc">> /\ "disconnect" # "assoc"
    OBVIOUS
  <2>2. Outcome(h)' => Outcome(h) /\ ~Associating
    BY <1>1, <1>2, <1>4, <2>1, Zenon DEF Outcome, Associating, Quiet
  <2> QED BY <1>1, <1>2, <1>3, <2>2, Zenon DEF Names, Associating
<1> QED BY <1>2, <1>3, <1>6, <1>7, SomeStage, Zenon DEF StationInv, Stage

\* The caller of a command wakes up on its answer, or gives it up.
LEMMA WaitInv == ASSUME StationInv, ~given_up, St!wait_and_decode_cmd_resp PROVE StationInv'
<1>1. PICK h \in News : Stage(h) /\ Names(h)
  BY SomeStage, Zenon
<1>2. /\ caller # None /\ caller' = None /\ answer' = None
      /\ UNCHANGED <<current_bss, bss, assoc_req_ie, assoc_req_ie_len, to_fw, to_host, fw, attempt>>
      /\ given_up' = (given_up \/ answer = None)
      /\ sme' = IF answer # "ok" /\ caller.code # "disconnect"
                 THEN [state |-> "idle", bss |-> None] ELSE sme
  BY Zenon DEF St!wait_and_decode_cmd_resp, St!privVars
<1>3. given_up' \in BOOLEAN /\ (given_up' <=> answer = None) /\ (Connected' <=> Connected)
  BY <1>2, SomeStage, Zenon DEF Connected
<1>4. sme \in SmeStates /\ [state |-> "idle", bss |-> None] \in SmeStates
      /\ [state |-> "idle", bss |-> None].state = "idle"
  BY SomeStage DEF SmeStates
<1>5. CASE answer = None
  BY <1>5, <1>3, Zenon DEF StationInv
<1>6. CASE AskFailed(h)
  <2>1. sme' \in SmeStates /\ sme'.state = "idle"
    <3>1. "fail" # "ok" /\ "auth" # "disconnect" /\ "assoc" # "disconnect"
      OBVIOUS
    <3> QED BY <1>2, <1>4, <1>6, <3>1, Zenon DEF AskFailed, Joining
  <2>2. Quiet(<< >>)'
    BY <1>2, <1>3, <1>6, <2>1, Zenon DEF AskFailed, Quiet, Progress, Connected
  <2>3. ~Outcome(<< >>)'
    BY <1>2, <1>6, NewsTaken, Singles, Zenon DEF Outcome, AskFailed
  <2>4. Names(<< >>)'
    BY <1>2, <2>1, <2>3, Zenon DEF Names
  <2> QED BY <1>2, <1>3, <2>1, <2>2, <2>4, NewsDiffer, Zenon DEF StationInv, Stage
<1>7. CASE AskOk(h)
  <2>1. sme' = sme
    BY <1>2, <1>7, Zenon DEF AskOk
  <2>2. Quiet(h)'
    BY <1>2, <1>3, <1>7, <2>1, Zenon DEF AskOk, Quiet, Progress
  <2>3. Outcome(h)' <=> Outcome(h)
    BY <1>2, Zenon DEF Outcome
  <2>4. caller.bss = bss
    BY <1>1, <1>7, <1>2 DEF Names, AskOk, Joining
  <2>5. Associating \/ bss \in held => bss' \in held'
    BY <1>2, <1>7, <2>4, Zenon DEF Associating, St!wait_and_decode_cmd_resp, AskOk
  <2>6. Names(h)'
    BY <1>1, <1>2, <2>1, <2>3, <2>5, Zenon DEF Names, St!Entries
  <2> QED BY <1>2, <1>3, <1>4, <2>1, <2>2, <2>6, Zenon DEF StationInv, Stage
<1>8. CASE LeaveDone(h)
  <2>1. sme' = sme
    BY <1>2, <1>8, Zenon DEF LeaveDone
  <2>2. Quiet(<< >>)'
    BY <1>2, <1>3, <1>8, <2>1, Zenon DEF LeaveDone, Quiet, Progress, Connected
  <2>3. ~Outcome(<< >>)'
    BY <1>2, <1>8, NewsTaken, Singles, Zenon DEF Outcome, LeaveDone
  <2>4. sme'.state = "idle"
    BY <2>1, <1>8, Zenon DEF LeaveDone
  <2>5. Names(<< >>)'
    BY <1>2, <2>3, <2>4, Zenon DEF Names
  <2> QED BY <1>2, <1>3, <1>4, <2>1, <2>2, <2>5, NewsDiffer, Zenon DEF StationInv, Stage
<1> QED BY <1>1, <1>2, <1>5, <1>6, <1>7, <1>8, Zenon DEF Stage, Quiet, AskSent, AskRefused,
        AskTaken, LeaveSent, LeaveTaken

\* Core 0 takes a command and answers it.
LEMMA FirmwareAnswersInv == ASSUME StationInv, ~given_up, St!FirmwareAnswers PROVE StationInv'
<1>1. PICK h \in News : Stage(h) /\ Names(h)
  BY SomeStage, Zenon
<1>2. /\ to_fw # << >> /\ to_fw' = Tail(to_fw)
      /\ UNCHANGED <<current_bss, held, sme, bss, assoc_req_ie, assoc_req_ie_len, caller, answer,
                     attempt, given_up>>
  BY Zenon DEF St!FirmwareAnswers, St!cfgVars, St!privVars
<1>3. /\ sme' \in SmeStates /\ caller' \in Callers \cup {None} /\ given_up' \in BOOLEAN
      /\ (Connected' <=> Connected)
  BY <1>2, SomeStage, Zenon DEF Connected, SmeStates, Callers, St!Entries
<1>4. CASE AskSent(h)
  <2>1. Head(to_fw) = caller.code /\ to_fw' = << >>
    BY <1>2, <1>4, Singles, Zenon DEF AskSent
  <2>2. caller.code # "disconnect"
    BY <1>4 DEF AskSent, Joining
  <2>3. CASE fw' = caller.code /\ to_host' = Append(to_host, "ok")
    <3>1. to_host' = Behind("ok", << >>)
      BY <2>3, <1>4, NewsAreWords, NewsDiffer, BehindIs, Zenon DEF AskSent
    <3>2. Progress(<< >>, fw', sme'.state, current_bss')
      BY <1>2, <1>3, <1>4, <2>3, Zenon DEF AskSent, Progress, Joining, Connected
    <3>3. AskTaken(<< >>)'
      BY <1>2, <1>4, <2>1, <3>1, <3>2, Zenon DEF AskSent, AskTaken
    <3>4. Outcome(<< >>)' => Outcome(<< >>)
      <4>1. << >> # <<"assoc">>
        BY Singles, Zenon
      <4> QED BY <4>1, <1>4, <2>1, <2>3, Zenon DEF Outcome, AskSent
    <3>5. Names(<< >>)'
      BY <1>1, <1>2, <1>4, <3>4, Zenon DEF Names, Associating, AskSent, St!Entries
    <3> QED BY <1>3, <3>3, <3>5, NewsDiffer, Zenon DEF StationInv, Stage
  <2>4. CASE fw' = fw /\ to_host' = Append(to_host, "fail")
    <3>1. to_host' = Behind("fail", << >>)
      BY <2>4, <1>4, NewsAreWords, NewsDiffer, BehindIs, Zenon DEF AskSent
    <3>2. AskRefused(<< >>)'
      BY <1>2, <1>3, <1>4, <2>1, <2>4, <3>1, Zenon DEF AskSent, AskRefused
    <3>3. ~Outcome(<< >>)'
      BY <1>4, <2>1, <2>4, NewsTaken, Singles, Zenon DEF Outcome, AskSent
    <3>4. Names(<< >>)'
      BY <1>1, <1>2, <1>4, <3>3, Zenon DEF Names, St!Entries
    <3> QED BY <1>3, <3>2, <3>4, NewsDiffer, Zenon DEF StationInv, Stage
  <2> QED BY <2>1, <2>2, <2>3, <2>4, Zenon DEF St!FirmwareAnswers
<1>5. CASE LeaveSent(h)
  <2>1. Head(to_fw) = "disconnect" /\ to_fw' = << >>
    BY <1>2, <1>5, Singles, Zenon DEF LeaveSent
  <2>2. /\ fw' = "idle"
        /\ to_host' = h \o (IF fw \in {"assoc", "up"} THEN <<"disconnected", "ok">> ELSE <<"ok">>)
    BY <2>1, <1>5, Zenon DEF St!FirmwareAnswers, LeaveSent
  <2>3. PICK st \in {"idle", "auth", "authed", "assoc", "up"} : Progress(h, fw, st, current_bss)
    BY <1>5, Zenon DEF LeaveSent
  <2>4. h \in Words
    BY NewsAreWords, Zenon
  <2>5. LeftOrUp'
    BY <1>2, <1>3, <1>5, Zenon DEF LeaveSent, LeftOrUp
  <2>6. CASE fw \in {"assoc", "up"}
    <3> DEFINE g == Append(h, "disconnected")
    <3>1. to_host' = Before(g)
      BY <2>2, <2>4, <2>6, BeforeIs, Zenon
    <3>2. /\ h = << >> => g = Lost
          /\ h = Associated => g = AssociatedLost
      BY NewsGrows, Zenon
    <3>3. h = << >> \/ (h = Associated /\ ~Connected)
      <4>1. "idle" # "assoc" /\ "idle" # "up"
        OBVIOUS
      <4> QED BY <4>1, <2>3, <2>6, Zenon DEF Progress, Connected
    <3> HIDE DEF g
    <3>4. g \in News /\ g # Associated /\ (g # Lost => ~Connected)
      BY <3>2, <3>3, NewsDiffer, Zenon
    <3>5. LeaveTaken(g)'
      BY <1>2, <1>3, <1>5, <2>1, <2>2, <2>5, <3>1, <3>4, Zenon DEF LeaveTaken, LeaveSent
    <3>6. Outcome(g)' => Outcome(h) /\ h = Associated
      <4>1. << >> # <<"assoc">> /\ "idle" # "assoc"
        BY Singles
      <4> QED BY <4>1, <2>1, <2>2, <3>2, <3>3, NewsDiffer, Zenon DEF Outcome
    <3>7. Names(g)'
      BY <1>1, <1>2, <3>6, Zenon DEF Names, Associating, St!Entries
    <3> QED BY <1>3, <3>4, <3>5, <3>7, Zenon DEF StationInv, Stage
  <2>7. CASE fw \notin {"assoc", "up"}
    <3>1. to_host' = Before(h)
      BY <2>2, <2>4, <2>7, BeforeIs, Zenon
    <3>2. h # Associated /\ (h # Lost => ~Connected)
      BY <2>3, <2>7, NewsDiffer, NewsTaken, Zenon DEF Progress, Connected
    <3>3. LeaveTaken(h)'
      BY <1>2, <1>3, <1>5, <2>1, <2>2, <2>5, <3>1, <3>2, Zenon DEF LeaveTaken, LeaveSent
    <3>4. Outcome(h)' => Outcome(h)
      <4>1. << >> # <<"assoc">> /\ "idle" # "assoc"
        BY Singles
      <4> QED BY <4>1, <2>1, <2>2, Zenon DEF Outcome
    <3>5. Names(h)'
      BY <1>1, <1>2, <3>4, Zenon DEF Names, Associating, St!Entries
    <3> QED BY <1>3, <3>3, <3>5, Zenon DEF StationInv, Stage
  <2> QED BY <2>6, <2>7, Zenon
<1> QED BY <1>1, <1>2, <1>4, <1>5, Zenon DEF Stage, Quiet, AskRefused, AskTaken, AskFailed, AskOk,
        LeaveTaken, LeaveDone

\* Core 0 sends an event on its own account.
LEMMA FirmwareEventInv == ASSUME StationInv, ~given_up, St!FirmwareEvent PROVE StationInv'
<1>1. PICK h \in News : Stage(h) /\ Names(h)
  BY SomeStage, Zenon
<1>2. UNCHANGED <<current_bss, held, sme, bss, assoc_req_ie, assoc_req_ie_len, caller, answer,
                  to_fw, attempt, given_up>>
  BY Zenon DEF St!FirmwareEvent, St!cfgVars, St!privVars
<1>3. /\ sme' \in SmeStates /\ caller' \in Callers \cup {None} /\ given_up' \in BOOLEAN
      /\ (Connected' <=> Connected)
  BY <1>2, SomeStage, Zenon DEF Connected, SmeStates, Callers, St!Entries
<1>4. PICK m \in {"authenticated", "associated", "refused", "disconnected"} :
        CoreZeroEvent(fw, fw', m) /\ to_host' = Append(to_host, m)
  <2>1. /\ "authenticated" \in {"authenticated", "associated", "refused", "disconnected"}
        /\ "associated" \in {"authenticated", "associated", "refused", "disconnected"}
        /\ "refused" \in {"authenticated", "associated", "refused", "disconnected"}
        /\ "disconnected" \in {"authenticated", "associated", "refused", "disconnected"}
    OBVIOUS
  <2> QED BY <2>1, Zenon DEF St!FirmwareEvent, CoreZeroEvent
<1>5. fw # "idle"
  BY <1>4 DEF CoreZeroEvent
<1> DEFINE g == Append(h, m)
<1>6. ASSUME NEW st, Progress(h, fw, st, current_bss)
      PROVE  /\ g \in News /\ Progress(g, fw', st, current_bss')
             /\ Outcome(g)' => Outcome(h)
  <2>1. /\ Append(h, m) \in News /\ Progress(Append(h, m), fw', st, current_bss)
        /\ fw' # "assoc"
        /\ Append(h, m) \in {Associated, AssociatedLost, Refused} => fw = "assoc" \/ h = Associated
    BY <1>4, <1>6, ProgressGrows, Zenon
  <2>2. Progress(g, fw', st, current_bss')
    BY <2>1, <1>2, Zenon DEF Progress
  <2> QED BY <1>2, <2>1, <2>2, Zenon DEF Outcome
<1> HIDE DEF g
<1>7. ASSUME Outcome(g)' => Outcome(h) PROVE Names(g)'
  BY <1>1, <1>2, <1>7, Zenon DEF Names, Associating, St!Entries
<1>8. CASE Quiet(h)
  <2>1. g \in News /\ Progress(g, fw', sme.state, current_bss') /\ (Outcome(g)' => Outcome(h))
    BY <1>6, <1>8, Zenon DEF Quiet
  <2>2. Quiet(g)'
    BY <1>2, <1>4, <1>8, <2>1, Zenon DEF Quiet, g
  <2> QED BY <1>3, <1>7, <2>1, <2>2, Zenon DEF StationInv, Stage
<1>9. CASE AskTaken(h)
  <2>1. g \in News /\ Progress(g, fw', sme.state, current_bss') /\ (Outcome(g)' => Outcome(h))
    BY <1>6, <1>9, Zenon DEF AskTaken
  <2>2. to_host' = Behind("ok", g)
    BY <1>4, <1>9, BehindIs, NewsAreWords, Zenon DEF AskTaken, g
  <2>3. AskTaken(g)'
    BY <1>2, <1>9, <2>1, <2>2, Zenon DEF AskTaken
  <2> QED BY <1>3, <1>7, <2>1, <2>3, Zenon DEF StationInv, Stage
<1>10. CASE AskOk(h)
  <2>1. g \in News /\ Progress(g, fw', sme.state, current_bss') /\ (Outcome(g)' => Outcome(h))
    BY <1>6, <1>10, Zenon DEF AskOk
  <2>2. AskOk(g)'
    BY <1>2, <1>4, <1>10, <2>1, Zenon DEF AskOk, g
  <2> QED BY <1>3, <1>7, <2>1, <2>2, Zenon DEF StationInv, Stage
<1>11. CASE LeaveSent(h)
  <2>1. PICK st \in {"idle", "auth", "authed", "assoc", "up"} : Progress(h, fw, st, current_bss)
    BY <1>11, Zenon DEF LeaveSent
  <2>2. g \in News /\ Progress(g, fw', st, current_bss') /\ (Outcome(g)' => Outcome(h))
    BY <1>6, <2>1, Zenon
  <2>3. LeftOrUp'
    BY <1>2, <1>3, <1>11, Zenon DEF LeaveSent, LeftOrUp
  <2>4. LeaveSent(g)'
    BY <1>2, <1>4, <1>11, <2>2, <2>3, Zenon DEF LeaveSent, g
  <2> QED BY <1>3, <1>7, <2>2, <2>4, Zenon DEF StationInv, Stage
<1> QED BY <1>1, <1>5, <1>8, <1>9, <1>10, <1>11, Zenon DEF Stage, AskSent, AskRefused, AskFailed,
        LeaveTaken, LeaveDone

\* The receive work hands an answer to the command (process_cmd_resp).
LEMMA ProcessRespInv == ASSUME StationInv, ~given_up, St!process_cmd_resp PROVE StationInv'
<1>1. PICK h \in News : Stage(h) /\ Names(h)
  BY SomeStage, Zenon
<1>2. /\ to_host # << >> /\ Head(to_host) \in {"ok", "fail"} /\ to_host' = Tail(to_host)
      /\ answer' = IF caller = None THEN None ELSE Head(to_host)
      /\ UNCHANGED <<current_bss, held, sme, bss, assoc_req_ie, assoc_req_ie_len, caller, to_fw, fw,
                     attempt, given_up>>
  BY DEF St!process_cmd_resp, St!Received, St!cfgVars, St!privVars
<1>3. /\ sme' \in SmeStates /\ caller' \in Callers \cup {None} /\ given_up' \in BOOLEAN
      /\ (Connected' <=> Connected) /\ (LeftOrUp' <=> LeftOrUp)
  BY <1>2, SomeStage, Zenon DEF Connected, LeftOrUp, SmeStates, Callers, St!Entries
<1>4. h \in Words /\ << >> \in Words
  BY NewsAreWords, NewsDiffer, Zenon
<1>5. Names(h)'
  BY <1>1, <1>2, Zenon DEF Names, Outcome, Associating, St!Entries
<1>6. h # << >> => Head(h) \notin {"ok", "fail"}
  BY NewsTaken DEF News
<1>7. CASE AskRefused(h)
  <2>1. Head(to_host) = "fail" /\ to_host' = << >>
    BY <1>2, <1>4, <1>7, BehindIs, Zenon DEF AskRefused
  <2>2. AskFailed(h)'
    BY <1>2, <1>3, <1>7, <2>1, Zenon DEF AskRefused, AskFailed
  <2> QED BY <1>3, <1>5, <2>2, Zenon DEF StationInv, Stage
<1>8. CASE AskTaken(h)
  <2>1. Head(to_host) = "ok" /\ to_host' = h
    BY <1>2, <1>4, <1>8, BehindIs, Zenon DEF AskTaken
  <2>2. AskOk(h)'
    BY <1>2, <1>8, <2>1, Zenon DEF AskTaken, AskOk
  <2> QED BY <1>3, <1>5, <2>2, Zenon DEF StationInv, Stage
<1>9. CASE LeaveTaken(h)
  <2>1. h = << >>
    BY <1>2, <1>4, <1>6, <1>9, BeforeIs, Zenon DEF LeaveTaken
  <2>2. Head(to_host) = "ok" /\ to_host' = << >>
    BY <1>2, <1>4, <1>9, <2>1, BeforeIs, Zenon DEF LeaveTaken
  <2>3. ~Connected /\ sme.state = "idle"
    BY <1>9, <2>1, NewsTaken, Zenon DEF LeaveTaken, LeftOrUp
  <2>4. LeaveDone(h)'
    BY <1>2, <1>3, <1>9, <2>1, <2>2, <2>3, Zenon DEF LeaveTaken, LeaveDone
  <2> QED BY <1>3, <1>5, <2>4, Zenon DEF StationInv, Stage
<1> QED BY <1>1, <1>2, <1>6, <1>7, <1>8, <1>9, Zenon DEF Stage, Quiet, AskSent, AskFailed, AskOk,
        LeaveSent, LeaveDone

\* What handling an event does to the supplicant and to cfg80211's connection.
Handled(m) ==
    \/ m = "authenticated" /\ current_bss' = current_bss /\ held' = held
       /\ sme' = IF sme.state = "auth" THEN [sme EXCEPT !.state = "authed"] ELSE sme
    \/ m = "associated" /\ current_bss' = bss /\ sme' = [state |-> "up", bss |-> bss]
    \/ m = "refused" /\ current_bss' = current_bss /\ sme' = [state |-> "idle", bss |-> None]
    \/ m = "disconnected" /\ current_bss' = None /\ held' = held
       /\ sme' = [state |-> "idle", bss |-> None]

\* process_cmd_event takes the first frame and does what that event is for.
LEMMA EventIs ==
    ASSUME St!process_cmd_event
    PROVE  /\ to_host # << >> /\ Handled(Head(to_host)) /\ to_host' = Tail(to_host)
           /\ UNCHANGED <<bss, assoc_req_ie, assoc_req_ie_len, caller, answer, to_fw, fw, attempt,
                          given_up>>
<1>1. CASE St!process_auth_event
  BY <1>1, Zenon DEF St!process_auth_event, St!Received, Handled, St!cfgVars, St!privVars
<1>2. CASE St!process_assoc_event
  BY <1>2, Zenon DEF St!process_assoc_event, St!Received, Handled
<1>3. CASE St!process_disconnect_event
  BY <1>3, Zenon DEF St!process_disconnect_event, St!esp_mark_disconnect, St!process_deauth_event,
     St!Received, Handled, St!privVars
<1> QED BY <1>1, <1>2, <1>3, Zenon DEF St!process_cmd_event

\* The receive work handles an event (process_cmd_event).
LEMMA ProcessEventInv == ASSUME StationInv, ~given_up, St!process_cmd_event PROVE StationInv'
<1>1. PICK h \in News : Stage(h) /\ Names(h)
  BY SomeStage, Zenon
<1>2. /\ to_host # << >> /\ Handled(Head(to_host)) /\ to_host' = Tail(to_host)
      /\ UNCHANGED <<bss, assoc_req_ie, assoc_req_ie_len, caller, answer, to_fw, fw, attempt, given_up>>
  BY EventIs, Zenon
<1>3. caller' \in Callers \cup {None} /\ given_up' \in BOOLEAN
  BY <1>2, SomeStage, Zenon DEF Callers, St!Entries
<1>4. Head(to_host) \notin {"ok", "fail"}
  BY <1>2 DEF Handled
<1>5. h \in Words /\ << >> \in Words
  BY NewsAreWords, NewsDiffer, Zenon
<1>6. /\ to_host # Behind("fail", << >>) /\ to_host # Behind("ok", h)
      /\ h = << >> => to_host # Before(h)
  <2>1. Head(Behind("fail", << >>)) = "fail" /\ Head(Behind("ok", h)) = "ok"
    BY <1>5, BehindIs, Zenon
  <2>2. h = << >> => Head(Before(h)) = "ok"
    BY <1>5, BeforeIs, Zenon
  <2> QED BY <1>4, <2>1, <2>2, Zenon
<1>7. /\ Quiet(h) \/ AskOk(h) \/ LeaveSent(h) \/ LeaveTaken(h)
      /\ h # << >> /\ Head(to_host) = Head(h)
  <2>1. Quiet(h) \/ AskOk(h) \/ LeaveSent(h) \/ LeaveTaken(h)
    BY <1>1, <1>2, <1>6, Zenon DEF Stage, AskSent, AskRefused, AskTaken, AskFailed, LeaveDone
  <2>2. CASE to_host = h
    BY <2>1, <2>2, <1>2, Zenon
  <2>3. CASE to_host = Before(h)
    BY <2>1, <2>3, <1>2, <1>5, <1>6, BeforeIs, Zenon
  <2> QED BY <2>1, <2>2, <2>3, Zenon DEF Quiet, AskOk, LeaveSent, LeaveTaken
<1>8. Handled(Head(h))
  BY <1>2, <1>7, Zenon
<1> DEFINE g == Tail(h)
<1>9. /\ Head(h) = "associated" => h \in {Associated, AssociatedLost}
      /\ Head(h) = "refused" => h = Refused
      /\ g \in News /\ g \notin {Associated, AssociatedLost, Refused}
  BY <1>7, NewsTaken, NewsDiffer, Zenon DEF News
<1> HIDE DEF g
<1>10. Head(h) = "associated" => bss \in St!Entries /\ bss # None
  BY <1>1, <1>9, CallersAreNotNone, Zenon DEF Names, Outcome
<1>11. /\ sme' \in SmeStates
       /\ Head(h) = "authenticated" =>
            /\ sme'.state = IF sme.state = "auth" THEN "authed" ELSE sme.state
            /\ sme'.bss = sme.bss /\ current_bss' = current_bss /\ held' = held
       /\ Head(h) = "associated" => sme'.state = "up" /\ current_bss' = bss
       /\ Head(h) = "refused" => sme'.state = "idle" /\ current_bss' = current_bss
       /\ Head(h) = "disconnected" => sme'.state = "idle" /\ current_bss' = None /\ held' = held
  <2>1. sme \in SmeStates
    BY SomeStage, Zenon
  <2> QED BY <2>1, <1>8, <1>10 DEF Handled, SmeStates
<1>12. Head(h) \in {"authenticated", "associated", "refused", "disconnected"}
  BY <1>8, Zenon DEF Handled
<1>13. to_fw = <<"assoc">> => FALSE
  <2>1. <<"disconnect">> # <<"assoc">> /\ << >> # <<"assoc">>
    BY Singles
  <2> QED BY <1>7, <2>1, Zenon DEF Quiet, AskOk, LeaveSent, LeaveTaken
<1>14. fw # "assoc"
  <2>1. "idle" # "assoc" /\ "up" # "assoc"
    OBVIOUS
  <2> QED BY <1>7, <2>1, ProgressTakes, Zenon DEF Quiet, AskOk, LeaveSent, LeaveTaken
<1>15. ~Outcome(g)'
  BY <1>2, <1>9, <1>13, <1>14, Zenon DEF Outcome
<1>16. Names(g)'
  <2>1. sme'.state \in {"auth", "authed", "assoc"} => sme.state \in {"auth", "authed", "assoc"} /\ sme'.bss = sme.bss
    BY <1>11, <1>12
  <2> QED BY <1>1, <1>2, <1>15, <2>1, Zenon DEF Names, St!Entries
<1>17. ASSUME NEW st, Progress(h, fw, st, current_bss)
       PROVE  /\ Head(h) = "authenticated" => st = "auth" /\ Progress(g, fw', "authed", current_bss')
              /\ Head(h) = "associated" => Progress(g, fw', "up", current_bss')
              /\ Head(h) = "refused" => Progress(g, fw', "idle", current_bss')
              /\ Head(h) = "disconnected" => Progress(g, fw', "idle", current_bss')
  <2>1. /\ Head(h) = "authenticated" => st = "auth" /\ Progress(Tail(h), fw, "authed", current_bss)
        /\ Head(h) = "associated" => \A d : d # None => Progress(Tail(h), fw, "up", d)
        /\ Head(h) = "refused" => Progress(Tail(h), fw, "idle", current_bss)
        /\ Head(h) = "disconnected" => Progress(Tail(h), fw, "idle", None)
    BY <1>7, <1>17, ProgressTakes, Zenon
  <2> QED BY <2>1, <1>2, <1>10, <1>11, Zenon DEF g
<1>18. ASSUME Progress(h, fw, sme.state, current_bss)
       PROVE  Progress(g, fw', sme'.state, current_bss')
  BY <1>11, <1>12, <1>17, <1>18, Zenon
<1>19. LeftOrUp => LeftOrUp'
  BY <1>10, <1>11, <1>12 DEF LeftOrUp, Connected
<1>20. CASE Quiet(h)
  <2>1. Quiet(g)'
    BY <1>2, <1>18, <1>20, Zenon DEF Quiet, g
  <2> QED BY <1>3, <1>9, <1>11, <1>16, <2>1, Zenon DEF StationInv, Stage
<1>21. CASE AskOk(h)
  <2>1. AskOk(g)'
    BY <1>2, <1>18, <1>21, Zenon DEF AskOk, g
  <2> QED BY <1>3, <1>9, <1>11, <1>16, <2>1, Zenon DEF StationInv, Stage
<1>22. CASE LeaveSent(h)
  <2>1. PICK st \in {"idle", "auth", "authed", "assoc", "up"} : Progress(h, fw, st, current_bss)
    BY <1>22, Zenon DEF LeaveSent
  <2>2. \E t \in {"idle", "auth", "authed", "assoc", "up"} : Progress(g, fw', t, current_bss')
    BY <1>12, <1>17, <2>1, Zenon
  <2>3. LeaveSent(g)'
    BY <1>2, <1>19, <1>22, <2>2, Zenon DEF LeaveSent, g
  <2> QED BY <1>3, <1>9, <1>11, <1>16, <2>3, Zenon DEF StationInv, Stage
<1>23. CASE LeaveTaken(h)
  <2>1. to_host' = Before(g)
    BY <1>2, <1>5, <1>7, <1>23, BeforeIs, Zenon DEF LeaveTaken, g
  <2>2. g # Associated /\ (g # Lost => ~Connected')
    BY <1>7, <1>9, <1>11, <1>23, NewsTaken, NewsDiffer, Zenon DEF News, LeaveTaken, Connected, g
  <2>3. LeaveTaken(g)'
    BY <1>2, <1>19, <1>23, <2>1, <2>2, Zenon DEF LeaveTaken
  <2> QED BY <1>3, <1>9, <1>11, <1>16, <2>3, Zenon DEF StationInv, Stage
<1> QED BY <1>7, <1>20, <1>21, <1>22, <1>23, Zenon

\* Every step keeps the invariant.
LEMMA StationNext == ASSUME StationInv, St!Next PROVE StationInv'
<1>1. CASE given_up
  <2>1. given_up'
    <3>1. CASE St!cfg80211_inform_bss \/ (\E e \in St!Entries : St!cfg80211_bss_expire(e))
      BY <1>1, <3>1, Zenon DEF St!cfg80211_inform_bss, St!cfg80211_bss_expire
    <3>2. CASE \/ \E e \in St!Entries : St!esp_cfg80211_authenticate(e)
               \/ \E e \in St!Entries, len \in ElementSizes : St!esp_cfg80211_associate(e, len)
               \/ St!Leave
      BY <1>1, <3>2, Zenon DEF St!esp_cfg80211_authenticate, St!esp_cfg80211_associate, St!Leave
    <3>3. CASE St!wait_and_decode_cmd_resp
      <4>1. given_up' = (given_up \/ answer = None)
        BY <3>3, Zenon DEF St!wait_and_decode_cmd_resp
      <4> QED BY <1>1, <4>1, Zenon
    <3>4. CASE St!FirmwareAnswers \/ St!FirmwareEvent \/ St!process_cmd_resp
      BY <1>1, <3>4, Zenon DEF St!FirmwareAnswers, St!FirmwareEvent, St!process_cmd_resp
    <3>5. CASE St!process_cmd_event \/ St!esp_commands_teardown
      BY <1>1, <3>5, EventIs, Zenon DEF St!esp_commands_teardown
    <3> QED BY <3>1, <3>2, <3>3, <3>4, <3>5, Zenon DEF St!Next, St!esp_cfg80211_deauth,
            St!esp_cfg80211_disassoc, St!esp_cfg80211_disconnect
  <2>2. given_up' \in BOOLEAN
    <3>1. given_up' = given_up \/ given_up' = (given_up \/ answer = None)
      <4>1. CASE St!process_cmd_event
        BY <4>1, EventIs, Zenon
      <4> QED BY <4>1, Zenon DEF St!Next, St!cfg80211_inform_bss, St!cfg80211_bss_expire,
            St!esp_cfg80211_authenticate, St!esp_cfg80211_associate, St!esp_cfg80211_deauth,
            St!esp_cfg80211_disassoc, St!esp_cfg80211_disconnect, St!Leave,
            St!wait_and_decode_cmd_resp, St!FirmwareAnswers, St!FirmwareEvent,
            St!process_cmd_resp, St!esp_commands_teardown
    <3> QED BY <3>1, Zenon DEF StationInv
  <2> QED BY <2>1, <2>2, Zenon DEF StationInv
<1>2. CASE ~given_up
  <2>1. CASE \/ St!cfg80211_inform_bss \/ (\E e \in St!Entries : St!cfg80211_bss_expire(e))
             \/ St!esp_commands_teardown
    <3>1. UNCHANGED <<held, current_bss, sme, bss, assoc_req_ie, assoc_req_ie_len, caller, answer,
                      to_fw, to_host, fw, attempt, given_up>>
      BY <2>1, Zenon DEF St!cfg80211_inform_bss, St!cfg80211_bss_expire, St!esp_commands_teardown,
         St!privVars, St!wireVars, St!cfgVars
    <3> QED BY <3>1, ScanListInv, Zenon
  <2>2. CASE \/ \E e \in St!Entries : St!esp_cfg80211_authenticate(e)
             \/ \E e \in St!Entries, len \in ElementSizes : St!esp_cfg80211_associate(e, len)
    BY <1>2, <2>2, AuthenticateInv, AssociateInv, Zenon
  <2>3. CASE St!esp_cfg80211_deauth \/ St!esp_cfg80211_disassoc \/ St!esp_cfg80211_disconnect
    BY <1>2, <2>3, LeaveInv, Zenon DEF St!esp_cfg80211_deauth, St!esp_cfg80211_disassoc,
       St!esp_cfg80211_disconnect
  <2>4. CASE St!wait_and_decode_cmd_resp \/ St!FirmwareAnswers \/ St!FirmwareEvent
    BY <1>2, <2>4, WaitInv, FirmwareAnswersInv, FirmwareEventInv, Zenon
  <2>5. CASE St!process_cmd_resp \/ St!process_cmd_event
    BY <1>2, <2>5, ProcessRespInv, ProcessEventInv, Zenon
  <2> QED BY <2>1, <2>2, <2>3, <2>4, <2>5, Zenon DEF St!Next
<1> QED BY <1>1, <1>2, Zenon

\* The invariant holds throughout.
LEMMA StationAlways == Spec => []StationInv
<1>1. Init => StationInv
  BY StationInit, Zenon DEF Init
<1>2. StationInv /\ [Next]_vars => StationInv'
  <2> SUFFICES ASSUME StationInv, [Next]_vars PROVE StationInv'
    BY Zenon
  <2>1. CASE St!Next
    BY <2>1, StationNext, Zenon
  <2>2. CASE UNCHANGED stationVars
    <3>1. UNCHANGED <<held, current_bss, sme, bss, assoc_req_ie, assoc_req_ie_len, caller, answer,
                      to_fw, to_host, fw, attempt, given_up>>
      BY <2>2, Zenon DEF stationVars
    <3> QED BY <3>1, ScanListInv, Zenon
  <2> QED BY <2>1, <2>2, Zenon DEF Next, vars
<1> QED BY <1>1, <1>2, PTL DEF Spec

\* cfg80211, the driver and core 0 agree on the connection when nothing is
\* under way (ConnectionAgrees), whatever the order of commands, answers and
\* events.
THEOREM StationAgrees == Spec => []ConnectionAgrees
<1>1. StationInv => ConnectionAgrees
  <2> SUFFICES ASSUME StationInv, to_fw = << >>, to_host = << >>, caller = None, ~given_up
               PROVE  current_bss # None <=> fw = "up"
    BY Zenon DEF ConnectionAgrees, St!ConnectionAgrees
  <2>1. PICK h \in News : Quiet(h)
    BY WhenQuiet, Zenon
  <2>2. Progress(<< >>, fw, sme.state, current_bss)
    BY <2>1, Zenon DEF Quiet
  <2>3. "idle" # "up" /\ "auth" # "up" /\ "assoc" # "up"
    OBVIOUS
  <2> QED BY <2>2, <2>3, NewsTaken, Zenon DEF Progress
<1> QED BY <1>1, StationAlways, PTL

\* The outcome of an association that arrives is one that was to come.
LEMMA OutcomeWasDue ==
    ASSUME StationInv, ~given_up, St!process_assoc_event
    PROVE  bss \in St!Alive /\ assoc_req_ie = attempt /\ assoc_req_ie_len = attempt
<1>1. PICK h \in News : Stage(h) /\ Names(h)
  BY SomeStage, Zenon
<1>2. to_host # << >> /\ (Head(to_host) = "associated" \/ Head(to_host) = "refused")
  BY Zenon DEF St!process_assoc_event, St!Received
<1>3. h \in Words /\ << >> \in Words
  BY NewsAreWords, NewsDiffer, Zenon
<1>4. /\ "associated" # "ok" /\ "associated" # "fail" /\ "refused" # "ok" /\ "refused" # "fail"
      /\ "associated" # "authenticated" /\ "associated" # "disconnected"
      /\ "refused" # "authenticated" /\ "refused" # "disconnected"
  OBVIOUS
<1>5. to_host = h \/ to_host = Before(h)
  <2>1. Head(Behind("fail", << >>)) = "fail" /\ Head(Behind("ok", h)) = "ok"
    BY <1>3, BehindIs, Zenon
  <2> QED BY <1>1, <1>2, <1>4, <2>1, Zenon DEF Stage, Quiet, AskSent, AskRefused, AskTaken, AskFailed,
          AskOk, LeaveSent, LeaveTaken, LeaveDone
<1>6. h # << >> /\ (Head(h) = "associated" \/ Head(h) = "refused")
  BY <1>2, <1>3, <1>4, <1>5, BeforeIs, Zenon
<1>7. Outcome(h)
  BY <1>4, <1>6, NewsTaken, Zenon DEF News, Outcome
<1>8. bss \in St!Entries /\ (Associating \/ bss \in held)
  BY <1>1, <1>7, Zenon DEF Names
<1>9. Associating => caller # None /\ caller.bss = bss
  <2>1. "assoc" # "disconnect"
    OBVIOUS
  <2> QED BY <1>1, <2>1, Zenon DEF Names, Associating
<1>10. bss \in St!Alive
  BY <1>8, <1>9, Zenon DEF St!Alive
<1> QED BY <1>1, <1>7, <1>10, Zenon DEF Names

\* Whenever esp_cfg80211's association event is passed on, it names an entry
\* cfg80211 still holds and the elements of the request it answers
\* (AnswerIsOwn).
THEOREM StationAnswersAreOwn == Spec => AnswerIsOwn
<1>1. StationInv => [St!process_assoc_event /\ ~given_up => bss \in St!Alive]_(St!vars)
  BY OutcomeWasDue, Zenon
<1>2. StationInv => [St!process_assoc_event /\ ~given_up
                       => assoc_req_ie = attempt /\ assoc_req_ie_len = attempt]_(St!vars)
  BY OutcomeWasDue, Zenon
<1> QED BY <1>1, <1>2, StationAlways, PTL DEF AnswerIsOwn, St!AnswerNamesLiveEntry,
        St!AnswerCarriesItsElements

-----------------------------------------------------------------------------
(* The invariant of Settings *)

\* The caller that issues commands of kind k.
CallerOf(k) ==
    IF k = "mcast" THEN "filter" ELSE IF k \in {"country", "ip", "mac"} THEN "rtnl" ELSE "wiphy"

\* What a command carries.
Carried == Values \cup {None} \cup 0 .. 255
\* The commands of prepare_command_request.
Commands == [caller : Se!Callers, kind : Se!Kinds, value : Carried]
\* The responses of core 0.
Responses == [ok : BOOLEAN, value : Carried]

\* What the stack may have asked for.
Asked(k) == IF k = "power" THEN {m \in Limits : m <= 2000} \cup {None} ELSE Values \cup {None}

\* The types.  Each caller sleeps only on commands of its own.
SettingsTypes ==
    /\ asked \in [Se!Kinds -> Values \cup {None} \cup Limits]
    /\ \A k \in Se!Kinds : asked[k] \in Asked(k)
    /\ set_fw \in [Se!Kinds -> Carried]
    /\ sleeping \in [Se!Callers -> Se!Kinds \cup {None}]
    /\ \A c \in Se!Callers : sleeping[c] # None => CallerOf(sleeping[c]) = c
    /\ set_answer \in [Se!Callers -> Responses \cup {None}]
    /\ pending \in Seq(Commands)

\* What the driver keeps is what was asked for, and the filter runs only after
\* the port was opened.
Kept ==
    /\ country_code = asked["country"] /\ mcast_list = asked["mcast"]
    /\ sleeping["filter"] # None \/ mac_flter_work => set_port_open

\* v is what core 0 is to have, or the filter will send another list.
UpToDate(k, v) == v = Se!Wire(k, asked[k]) \/ (k = "mcast" /\ mac_flter_work)

\* The commands queued are of callers that sleep on them, one of each.
Queued ==
    /\ \A i \in DOMAIN pending :
         /\ pending[i].caller # cur_cmd /\ sleeping[pending[i].caller] = pending[i].kind
         /\ UpToDate(pending[i].kind, pending[i].value)
    /\ \A i, j \in DOMAIN pending : pending[i].caller = pending[j].caller => i = j

\* A response to a command of kind k: core 0 has what it says if it succeeded.
Truthful(k, r) == r.ok => r.value = set_fw[k] /\ UpToDate(k, r.value)

\* Nothing is with core 0.
NoneInFlight ==
    cur_cmd = None /\ set_to_fw = << >> /\ set_to_host = << >>
      /\ \A c \in Se!Callers : set_answer[c] = None

\* The command is on its way there.
CommandSent ==
    /\ set_answer[cur_cmd] = None /\ set_to_host = << >>
    /\ \E m \in Commands :
         set_to_fw = <<m>> /\ m.kind = sleeping[cur_cmd] /\ UpToDate(m.kind, m.value)

\* Its answer is on its way back.
AnswerSent ==
    /\ set_answer[cur_cmd] = None /\ set_to_fw = << >>
    /\ \E r \in Responses : set_to_host = <<r>> /\ Truthful(sleeping[cur_cmd], r)

\* Its answer has arrived.
AnswerThere ==
    /\ set_answer[cur_cmd] \in Responses /\ set_to_fw = << >> /\ set_to_host = << >>
    /\ Truthful(sleeping[cur_cmd], set_answer[cur_cmd])

\* One command is with core 0.
OneInFlight ==
    /\ cur_cmd \in Se!Callers /\ sleeping[cur_cmd] \in Se!Kinds
    /\ \A c \in Se!Callers \ {cur_cmd} : set_answer[c] = None
    /\ CommandSent \/ AnswerSent \/ AnswerThere

\* Somebody sleeps on a command of kind k.
Underway(k) == \E c \in Se!Callers : sleeping[c] = k

\* Core 0 follows unless a command failed or is under way, and so does what
\* the driver reports.
Following ==
    /\ \A k \in Se!Kinds : k \in unsent \/ Underway(k) \/ UpToDate(k, set_fw[k])
    /\ "power" \in unsent \/ Underway("power") \/ asked["power"] = None \/ tx_pwr = set_fw["power"]
    /\ "mac" \in unsent \/ Underway("mac") \/ mac_address = set_fw["mac"]

\* The invariant, until a command is given up unanswered.
SettingsInv ==
    /\ set_given_up \in BOOLEAN
    /\ \/ set_given_up
       \/ SettingsTypes /\ Kept /\ Queued /\ (NoneInFlight \/ OneInFlight) /\ Following

-----------------------------------------------------------------------------
(* The steps of Settings *)

\* The names of kinds and callers are apart.
LEMMA SettingsNames ==
    /\ None \notin Se!Kinds /\ None \notin Se!Callers /\ None \notin Responses
    /\ \A k \in Se!Kinds : CallerOf(k) \in Se!Callers /\ (CallerOf(k) = "filter" <=> k = "mcast")
    /\ "country" \in Se!Kinds /\ "power" \in Se!Kinds /\ "mac" \in Se!Kinds /\ "mcast" \in Se!Kinds
    /\ "country" # "mcast" /\ "power" # "mcast" /\ "mac" # "mcast" /\ "power" # "mac"
    /\ "filter" \in Se!Callers
<1>1. None \notin Responses
  BY SettingsAssumption, Zenon DEF Responses, Carried
<1>2. None \notin Se!Kinds /\ None \notin Se!Callers
  BY SettingsAssumption, Zenon DEF Se!Kinds, Se!Callers
<1>3. \A k \in Se!Kinds : CallerOf(k) \in Se!Callers /\ (CallerOf(k) = "filter" <=> k = "mcast")
  BY DEF Se!Kinds, Se!Callers, CallerOf
<1>4. /\ "country" # "mcast" /\ "power" # "mcast" /\ "mac" # "mcast" /\ "power" # "mac"
      /\ "filter" \in Se!Callers
      /\ "country" \in Se!Kinds /\ "power" \in Se!Kinds /\ "mac" \in Se!Kinds /\ "mcast" \in Se!Kinds
  BY DEF Se!Kinds, Se!Callers
<1> QED BY <1>1, <1>2, <1>3, <1>4, Zenon

\* The invariant holds of the driver as it starts.
LEMMA SettingsInit == Se!Init => SettingsInv
<1> SUFFICES ASSUME Se!Init PROVE SettingsInv
  OBVIOUS
<1>1. /\ \A k \in Se!Kinds : asked[k] = None /\ set_fw[k] = None
      /\ \A c \in Se!Callers : sleeping[c] = None /\ set_answer[c] = None
      /\ pending = << >> /\ DOMAIN pending = {}
  BY DEF Se!Init
<1>2. SettingsTypes
  <2>1. pending \in Seq(Commands)
    BY <1>1
  <2> QED BY <1>1, <2>1, Zenon DEF Se!Init, SettingsTypes, Asked, Carried
<1>3. Kept
  BY <1>1, SettingsNames, Zenon DEF Kept, Se!Init
<1>4. Queued /\ NoneInFlight
  BY <1>1, Zenon DEF Queued, NoneInFlight, Se!Init
<1>5. \A k \in Se!Kinds : UpToDate(k, set_fw[k])
  BY <1>1, Zenon DEF UpToDate, Se!Wire
<1>6. Following
  BY <1>1, <1>5, SettingsNames, Zenon DEF Following, Se!Init
<1> QED BY <1>2, <1>3, <1>4, <1>6, Zenon DEF SettingsInv, Se!Init

\* What the invariant says before a command is given up.
LEMMA SettingsParts ==
    ASSUME SettingsInv, ~set_given_up
    PROVE  /\ SettingsTypes /\ Kept /\ Queued /\ (NoneInFlight \/ OneInFlight) /\ Following
           /\ set_given_up = FALSE
BY Zenon DEF SettingsInv

\* What is with core 0 stays what it is when nothing about it changes.
LEMMA FlightKept ==
    ASSUME NoneInFlight \/ OneInFlight,
           UNCHANGED <<set_answer, cur_cmd, set_to_fw, set_to_host, set_fw>>,
           OneInFlight => /\ sleeping'[cur_cmd] = sleeping[cur_cmd]
                          /\ \A v : UpToDate(sleeping[cur_cmd], v) => UpToDate(sleeping[cur_cmd], v)'
    PROVE  NoneInFlight' \/ OneInFlight'
<1>1. CASE NoneInFlight
  BY <1>1, Zenon DEF NoneInFlight, Se!Callers
<1>2. CASE OneInFlight
  <2> DEFINE k == sleeping[cur_cmd]
  <2>1. k' = k /\ \A v : UpToDate(k, v) => UpToDate(k, v)'
    BY <1>2, Zenon
  <2>2. \A r : Truthful(k, r) => (r.ok => r.value = set_fw[k] /\ UpToDate(k, r.value)')
    BY <2>1, Zenon DEF Truthful
  <2>3. CommandSent => CommandSent'
    <3> SUFFICES ASSUME CommandSent PROVE CommandSent'
      OBVIOUS
    <3>1. PICK m \in Commands : set_to_fw = <<m>> /\ m.kind = k /\ UpToDate(m.kind, m.value)
      BY Zenon DEF CommandSent
    <3>2. UpToDate(k, m.value)'
      BY <2>1, <3>1, Zenon
    <3>3. UpToDate(m.kind, m.value)' /\ m.kind = k'
      BY <2>1, <3>1, <3>2, Zenon DEF UpToDate
    <3> QED BY <3>1, <3>3, Zenon DEF CommandSent
  <2>4. AnswerSent => AnswerSent'
    <3> SUFFICES ASSUME AnswerSent PROVE AnswerSent'
      OBVIOUS
    <3>1. PICK r \in Responses : set_to_host = <<r>> /\ Truthful(k, r)
      BY Zenon DEF AnswerSent
    <3>2. Truthful(k, r)'
      BY <2>1, <2>2, <3>1, Zenon DEF Truthful, UpToDate
    <3> QED BY <3>1, <3>2, Zenon DEF AnswerSent
  <2>5. AnswerThere => AnswerThere'
    <3> SUFFICES ASSUME AnswerThere PROVE AnswerThere'
      OBVIOUS
    <3>1. Truthful(k, set_answer[cur_cmd])'
      BY <2>1, <2>2, Zenon DEF AnswerThere, Truthful, UpToDate
    <3> QED BY <3>1, Zenon DEF AnswerThere
  <2> QED BY <1>2, <2>1, <2>3, <2>4, <2>5, Zenon DEF OneInFlight
<1> QED BY <1>1, <1>2, Zenon

\* So do the commands queued.
LEMMA QueueKept ==
    ASSUME Queued, UNCHANGED <<cur_cmd, pending>>,
           \A i \in DOMAIN pending :
             /\ sleeping'[pending[i].caller] = sleeping[pending[i].caller]
             /\ \A v : UpToDate(pending[i].kind, v) => UpToDate(pending[i].kind, v)'
    PROVE  Queued'
<1>1. \A i \in DOMAIN pending : UpToDate(pending[i].kind, pending[i].value)'
  BY Zenon DEF Queued
<1> QED BY <1>1, Zenon DEF Queued, UpToDate

\* A step that touches none of this keeps the invariant.
LEMMA SettingsFrame ==
    ASSUME SettingsInv,
           UNCHANGED <<asked, country_code, tx_pwr, mac_address, mcast_list, mac_flter_work, sleeping,
                       set_answer, pending, cur_cmd, set_to_fw, set_to_host, set_fw, unsent,
                       set_given_up>>,
           set_port_open => set_port_open'
    PROVE  SettingsInv'
<1> SUFFICES ASSUME ~set_given_up PROVE SettingsInv'
  BY Zenon DEF SettingsInv
<1>0. /\ SettingsTypes /\ Kept /\ Queued /\ (NoneInFlight \/ OneInFlight) /\ Following
      /\ set_given_up = FALSE
  BY SettingsParts, Zenon
<1>1. SettingsTypes'
  BY <1>0, Zenon DEF SettingsTypes
<1>2. Kept' /\ \A k, v : UpToDate(k, v) => UpToDate(k, v)'
  BY <1>0, Zenon DEF Kept, UpToDate, Se!Wire
<1>3. Queued' /\ (NoneInFlight' \/ OneInFlight')
  BY <1>0, <1>2, QueueKept, FlightKept, Zenon
<1>4. Following'
  BY <1>0, <1>2, Zenon DEF Following, Underway, Se!Kinds, Se!Callers
<1> QED BY <1>0, <1>1, <1>2, <1>3, <1>4, Zenon DEF SettingsInv

\* Nobody sleeps on a command of kind k while its caller is awake.
LEMMA NotUnderway ==
    ASSUME SettingsTypes, NEW k \in Se!Kinds, sleeping[CallerOf(k)] = None
    PROVE  ~Underway(k)
BY SettingsNames, Zenon DEF Underway, SettingsTypes

\* A command that is queued or with core 0 is under way.
LEMMA TheirKinds ==
    ASSUME SettingsTypes, Queued
    PROVE  /\ \A i \in DOMAIN pending : /\ pending[i].caller \in Se!Callers
                                        /\ pending[i].kind \in Se!Kinds
                                        /\ Underway(pending[i].kind)
                                        /\ sleeping[pending[i].caller] = pending[i].kind
           /\ OneInFlight => Underway(sleeping[cur_cmd]) /\ sleeping[cur_cmd] \in Se!Kinds
<1>1. \A i \in DOMAIN pending : pending[i] \in Commands
  BY DEF SettingsTypes
<1>2. \A m \in Commands : m.caller \in Se!Callers /\ m.kind \in Se!Kinds
  BY DEF Commands
<1> QED BY <1>1, <1>2, Zenon DEF Queued, OneInFlight, Underway

\* A command of kind k is queued, with what the stack asks for, or cannot be
\* because the command component is gone.
LEMMA AskInv ==
    ASSUME SettingsInv, ~set_given_up, NEW k \in Se!Kinds, NEW v \in Asked(k),
           Se!Wire(k, v) \in Carried,
           Se!prepare_command_request(CallerOf(k), k, Se!Wire(k, v)),
           asked' = [asked EXCEPT ![k] = v],
           country_code' = IF k = "country" THEN v ELSE country_code,
           mcast_list' = IF k = "mcast" THEN v ELSE mcast_list,
           mac_flter_work' = IF k = "mcast" THEN FALSE ELSE mac_flter_work,
           k = "mcast" => set_port_open,
           k = "power" \/ tx_pwr' = tx_pwr,
           UNCHANGED <<mac_address, set_port_open, set_answer, cur_cmd, set_to_fw, set_to_host,
                       set_fw, set_given_up>>
    PROVE  SettingsInv'
<1>0. /\ SettingsTypes /\ Kept /\ Queued /\ (NoneInFlight \/ OneInFlight) /\ Following
      /\ set_given_up = FALSE
  BY SettingsParts, Zenon
<1> DEFINE c == CallerOf(k)
           m == [caller |-> c, kind |-> k, value |-> Se!Wire(k, v)]
<1>1. c \in Se!Callers /\ sleeping[c] = None /\ k # None /\ None \notin Se!Kinds
  BY SettingsNames, Zenon DEF Se!prepare_command_request
<1>2. ~Underway(k)
  BY <1>0, <1>1, NotUnderway, Zenon
<1>3. asked'[k] = v /\ \A j \in Se!Kinds \ {k} : asked'[j] = asked[j]
  BY <1>0, Zenon DEF SettingsTypes
<1>4. /\ \A j \in Se!Kinds \ {k} : \A w : UpToDate(j, w) => UpToDate(j, w)'
      /\ UpToDate(k, Se!Wire(k, v))'
  BY <1>3, Zenon DEF UpToDate
<1>5. /\ m \in Commands /\ m.caller = c /\ m.kind = k /\ m.value = Se!Wire(k, v)
  BY <1>1 DEF Commands
<1> HIDE DEF m
<1>6. \/ /\ unsent' = unsent \cup {k} /\ sleeping' = sleeping /\ pending' = pending
      \/ /\ unsent' = unsent /\ sleeping' = [sleeping EXCEPT ![c] = k] /\ pending' = Append(pending, m)
  BY Zenon DEF Se!prepare_command_request, m
<1>7. \A d \in Se!Callers : sleeping[d] # None => sleeping'[d] = sleeping[d]
  BY <1>0, <1>1, <1>6, Zenon DEF SettingsTypes
<1>8. /\ pending \in Seq(Commands) /\ pending' \in Seq(Commands)
      /\ \A i \in DOMAIN pending : i \in DOMAIN pending' /\ pending'[i] = pending[i]
      /\ \A i \in DOMAIN pending' : i \in DOMAIN pending \/ (pending'[i] = m /\ sleeping'[c] = k)
      /\ \A i, j \in DOMAIN pending' : i \notin DOMAIN pending /\ j \notin DOMAIN pending => i = j
  <2>1. pending \in Seq(Commands) /\ c \in DOMAIN sleeping
    BY <1>0, <1>1, Zenon DEF SettingsTypes
  <2>2. CASE pending' = pending
    BY <2>1, <2>2
  <2>3. CASE pending' = Append(pending, m) /\ sleeping' = [sleeping EXCEPT ![c] = k]
    <3>1. sleeping'[c] = k
      BY <2>1, <2>3, Zenon
    <3> QED BY <2>1, <2>3, <3>1, <1>5, Longer
  <2> QED BY <1>6, <2>2, <2>3, Zenon
<1>9. SettingsTypes'
  <2>1. asked' \in [Se!Kinds -> Values \cup {None} \cup Limits]
    <3>1. v \in Values \cup {None} \cup Limits
      BY DEF Asked
    <3> QED BY <1>0, <3>1, Zenon DEF SettingsTypes
  <2>2. \A j \in Se!Kinds : asked'[j] \in Asked(j)
    BY <1>0, <1>3, Zenon DEF SettingsTypes
  <2>3. /\ sleeping' \in [Se!Callers -> Se!Kinds \cup {None}]
        /\ \A d \in Se!Callers : sleeping'[d] # None => CallerOf(sleeping'[d]) = d
    BY <1>0, <1>6, Zenon DEF SettingsTypes
  <2> QED BY <1>0, <1>8, <2>1, <2>2, <2>3, Zenon DEF SettingsTypes
<1>10. Kept'
  <2>1. country_code' = asked'["country"] /\ mcast_list' = asked'["mcast"]
    BY <1>0, <1>3, SettingsNames, Zenon DEF Kept
  <2>2. sleeping'["filter"] # None => sleeping["filter"] # None \/ k = "mcast"
    BY <1>0, <1>6, SettingsNames, Zenon DEF SettingsTypes
  <2> QED BY <1>0, <2>1, <2>2, Zenon DEF Kept
<1>11. Queued'
  <2>1. ASSUME NEW i \in DOMAIN pending
        PROVE  /\ pending[i].caller # cur_cmd /\ pending[i].caller # c
               /\ sleeping'[pending[i].caller] = pending[i].kind
               /\ pending[i].kind \in Se!Kinds \ {k}
    <3>1. /\ pending[i].caller \in Se!Callers /\ pending[i].kind \in Se!Kinds
          /\ Underway(pending[i].kind) /\ sleeping[pending[i].caller] = pending[i].kind
      BY <1>0, TheirKinds, Zenon
    <3> QED BY <1>0, <1>1, <1>2, <1>7, <3>1, Zenon DEF Queued
  <2>2. c # cur_cmd
    BY <1>0, <1>1, SettingsNames, Zenon DEF NoneInFlight, OneInFlight
  <2>3. ASSUME NEW i \in DOMAIN pending'
        PROVE  /\ pending'[i].caller # cur_cmd /\ sleeping'[pending'[i].caller] = pending'[i].kind
               /\ UpToDate(pending[i].kind, pending[i].value)'
    <3>1. CASE i \in DOMAIN pending
      <4> DEFINE e == pending[i]
      <4>1. UpToDate(e.kind, e.value) /\ e.kind \in Se!Kinds \ {k} /\ e' = e
        BY <1>0, <1>8, <2>1, <3>1, Zenon DEF Queued
      <4>2. e.value = Se!Wire(e.kind, asked'[e.kind]) \/ (e.kind = "mcast" /\ mac_flter_work')
        BY <1>3, <4>1, Zenon DEF UpToDate
      <4>3. UpToDate(e.kind, e.value)'
        BY <4>1, <4>2, Zenon DEF UpToDate
      <4>4. pending'[i] = pending[i]
        BY <1>8, <3>1, Zenon
      <4> QED BY <2>1, <3>1, <4>3, <4>4, Zenon
    <3>2. CASE pending'[i] = m /\ sleeping'[c] = k
      <4>1. UpToDate(pending[i].kind, pending[i].value)'
        BY <3>2, <1>3, <1>5, Zenon DEF UpToDate
      <4> QED BY <3>2, <4>1, <1>5, <2>2, Zenon
    <3> QED BY <1>8, <3>1, <3>2, Zenon
  <2>4. ASSUME NEW i \in DOMAIN pending', NEW j \in DOMAIN pending',
               pending'[i].caller = pending'[j].caller
        PROVE  i = j
    <3>1. CASE i \in DOMAIN pending /\ j \in DOMAIN pending
      <4>1. pending'[i] = pending[i] /\ pending'[j] = pending[j]
        BY <1>8, <3>1, Zenon
      <4>2. pending[i].caller = pending[j].caller
        BY <2>4, <4>1, Zenon
      <4> QED BY <1>0, <3>1, <4>2, Zenon DEF Queued
    <3>2. CASE i \in DOMAIN pending /\ j \notin DOMAIN pending
      <4>1. pending'[i] = pending[i] /\ pending'[j] = m
        BY <1>8, <3>2, Zenon
      <4>2. pending[i].caller # c
        BY <2>1, <3>2, Zenon
      <4> QED BY <1>5, <2>4, <4>1, <4>2, Zenon
    <3>3. CASE i \notin DOMAIN pending /\ j \in DOMAIN pending
      <4>1. pending'[j] = pending[j] /\ pending'[i] = m
        BY <1>8, <3>3, Zenon
      <4>2. pending[j].caller # c
        BY <2>1, <3>3, Zenon
      <4> QED BY <1>5, <2>4, <4>1, <4>2, Zenon
    <3> QED BY <1>8, <3>1, <3>2, <3>3, Zenon
  <2> QED BY <2>3, <2>4, Zenon DEF Queued
<1>12. NoneInFlight' \/ OneInFlight'
  <2>1. OneInFlight => /\ sleeping'[cur_cmd] = sleeping[cur_cmd]
                       /\ \A w : UpToDate(sleeping[cur_cmd], w) => UpToDate(sleeping[cur_cmd], w)'
    BY <1>0, <1>1, <1>2, <1>4, <1>7, TheirKinds, Zenon DEF OneInFlight
  <2> QED BY <1>0, <2>1, FlightKept, Zenon
<1>13. Following'
  <2>1. \A j \in Se!Kinds : Underway(j) => Underway(j)'
    BY <1>1, <1>7, Zenon DEF Underway
  <2>2. \A j \in unsent : j \in unsent'
    BY <1>6, Zenon
  <2>3. k \in unsent' \/ Underway(k)'
    <3>1. CASE sleeping' = [sleeping EXCEPT ![c] = k]
      BY <3>1, <1>0, <1>1, Zenon DEF Underway, SettingsTypes
    <3> QED BY <1>6, <3>1, Zenon
  <2>4. \A j \in Se!Kinds \ {k} : UpToDate(j, set_fw[j]) => UpToDate(j, set_fw[j])'
    BY <1>4, Zenon DEF UpToDate
  <2> QED BY <1>0, <1>3, <2>1, <2>2, <2>3, <2>4, SettingsNames, Zenon DEF Following
<1> QED BY <1>0, <1>9, <1>10, <1>11, <1>12, <1>13, Zenon DEF SettingsInv

\* Power in quarters of a dBm, in a byte.
LEMMA WireType ==
    ASSUME NEW k \in Se!Kinds, NEW v \in Asked(k)
    PROVE  Se!Wire(k, v) \in Carried
<1>1. CASE k = "power" /\ v # None
  <2>1. v \in Int
    BY <1>1, SettingsAssumption DEF Asked
  <2>2. Se!mbm_to_esp_pwr(v) \in Int
    BY <2>1 DEF Se!mbm_to_esp_pwr, Se!Quotient
  <2> DEFINE q == Se!mbm_to_esp_pwr(v)
  <2> HIDE DEF q
  <2>3. q % 256 \in 0 .. 255
    BY <2>2 DEF q
  <2> QED BY <1>1, <2>3, Zenon DEF q, Se!Wire, Carried
<1>2. CASE ~(k = "power" /\ v # None)
  <2>1. Se!Wire(k, v) = v
    BY <1>2, Zenon DEF Se!Wire
  <2>2. v \in Values \cup {None}
    BY <1>2 DEF Asked
  <2> QED BY <2>1, <2>2, Zenon DEF Carried
<1> QED BY <1>1, <1>2, Zenon

\* A limit that was accepted comes back in whole dBm, rounded down.
LEMMA PowerRounds ==
    ASSUME NEW m \in Asked("power"), m # None, m >= 0, NEW p, p = Se!Wire("power", m)
    PROVE  Se!esp_pwr_to_dbm(p) = m \div 100
<1>1. Limits \subseteq Int
  BY SettingsAssumption, Zenon
<1>2. m \in 0 .. 2000
  BY <1>1 DEF Asked
<1>3. p = Se!mbm_to_esp_pwr(m) % 256
  BY DEF Se!Wire
<1>4. Se!esp_pwr_to_dbm(Se!mbm_to_esp_pwr(m) % 256) = m \div 100
  BY <1>2 DEF Se!esp_pwr_to_dbm, Se!mbm_to_esp_pwr, Se!Quotient
<1> QED BY <1>3, <1>4, Zenon

\* esp_reg_notifier queues the domain, unless it is the one it sent last.
LEMMA RegNotifierInv ==
    ASSUME SettingsInv, ~set_given_up, NEW v \in Values, Se!esp_reg_notifier(v) PROVE SettingsInv'
<1>0. /\ SettingsTypes /\ Kept
  BY SettingsParts, Zenon
<1>1. CASE v = country_code
  <2>1. asked' = [asked EXCEPT !["country"] = v] /\ v = asked["country"]
    BY <1>0, <1>1, Zenon DEF Se!esp_reg_notifier, Se!Ask, Kept
  <2>2. asked' = asked
    BY <1>0, <2>1 DEF SettingsTypes
  <2> QED BY <1>1, <2>2, SettingsFrame, Zenon
       DEF Se!esp_reg_notifier, Se!queueVars, Se!filterVars, Se!wireVars
<1>2. CASE v # country_code
  <2>1. /\ CallerOf("country") = "rtnl" /\ Se!Wire("country", v) = v /\ "country" \in Se!Kinds
        /\ v \in Asked("country") /\ "country" # "mcast" /\ "country" # "power"
    BY DEF CallerOf, Se!Wire, Se!Kinds, Asked
  <2>2. Se!prepare_command_request(CallerOf("country"), "country", Se!Wire("country", v))
    BY <1>2, <2>1, Zenon DEF Se!esp_reg_notifier, Se!cmd_set_reg_domain
  <2>3. Se!Wire("country", v) \in Carried
    BY <2>1, WireType, Zenon
  <2> QED BY <2>1, <2>2, <2>3, AskInv, Zenon
       DEF Se!esp_reg_notifier, Se!Ask, Se!filterVars, Se!wireVars
<1> QED BY <1>1, <1>2, Zenon

\* esp_cfg80211_set_tx_power queues the limit in quarters of a dBm.
LEMMA SetTxPowerInv ==
    ASSUME SettingsInv, ~set_given_up, NEW mbm \in Limits, Se!esp_cfg80211_set_tx_power(mbm)
    PROVE  SettingsInv'
<1>1. CallerOf("power") = "wiphy" /\ "power" \in Se!Kinds /\ "power" # "mcast" /\ "power" # "country"
  BY DEF CallerOf, Se!Kinds
<1>2. mbm \in Asked("power") /\ mbm # None
  BY SettingsAssumption DEF Asked, Se!esp_cfg80211_set_tx_power, Se!is_txpwr_valid, Se!MAX_TX_POWER_MBM
<1>3. Se!Wire("power", mbm) = Se!mbm_to_esp_pwr(mbm) % 256
  BY <1>2, Zenon DEF Se!Wire
<1>4. Se!prepare_command_request(CallerOf("power"), "power", Se!Wire("power", mbm))
  BY <1>1, <1>3, Zenon DEF Se!esp_cfg80211_set_tx_power, Se!cmd_set_tx_power
<1>5. Se!Wire("power", mbm) \in Carried
  BY <1>1, <1>2, WireType, Zenon
<1> QED BY <1>1, <1>2, <1>4, <1>5, AskInv, Zenon
     DEF Se!esp_cfg80211_set_tx_power, Se!Ask, Se!filterVars, Se!wireVars

\* An address or a key is queued (cmd_set_ip_address, cmd_set_mac, cmd_add_key,
\* cmd_set_default_key).
LEMMA ForwardInv ==
    ASSUME SettingsInv, ~set_given_up, NEW k \in {"ip", "mac", "key", "default_key"},
           NEW v \in Values \cup {None}, Se!Forward(CallerOf(k), k, v)
    PROVE  SettingsInv'
<1>1. k \in Se!Kinds /\ k # "mcast" /\ k # "power" /\ k # "country"
  BY DEF Se!Kinds
<1>2. v \in Asked(k) /\ Se!Wire(k, v) = v
  BY <1>1, Zenon DEF Asked, Se!Wire
<1>3. Se!Wire(k, v) \in Carried
  BY <1>1, <1>2, WireType, Zenon
<1>4. Se!prepare_command_request(CallerOf(k), k, Se!Wire(k, v))
  BY <1>2, Zenon DEF Se!Forward
<1> QED BY <1>1, <1>2, <1>3, <1>4, AskInv, Zenon
     DEF Se!Forward, Se!Ask, Se!privVars, Se!filterVars, Se!wireVars

\* esp_set_rx_mode replaces the list; if the filter has sent an older one, its
\* work is queued again.
LEMMA SetRxModeInv ==
    ASSUME SettingsInv, ~set_given_up, NEW v \in Values, Se!esp_set_rx_mode(v) PROVE SettingsInv'
<1>0. /\ SettingsTypes /\ Kept /\ Queued /\ (NoneInFlight \/ OneInFlight) /\ Following
      /\ set_given_up = FALSE
  BY SettingsParts, Zenon
<1>1. /\ asked' = [asked EXCEPT !["mcast"] = v] /\ mcast_list' = v
      /\ mac_flter_work' = (mac_flter_work \/ set_port_open)
      /\ unsent' = IF set_port_open THEN unsent ELSE unsent \cup {"mcast"}
      /\ UNCHANGED <<country_code, tx_pwr, mac_address, set_port_open, sleeping, pending, set_answer,
                     cur_cmd, set_to_fw, set_to_host, set_fw, set_given_up>>
  BY Zenon DEF Se!esp_set_rx_mode, Se!Ask, Se!privVars, Se!wireVars
<1>2. asked'["mcast"] = v /\ \A j \in Se!Kinds \ {"mcast"} : asked'[j] = asked[j]
  BY <1>0, <1>1, SettingsNames, Zenon DEF SettingsTypes
<1>3. \A j \in Se!Kinds : Underway(j) => \A w : UpToDate(j, w) => UpToDate(j, w)'
  <2>1. Underway("mcast") => mac_flter_work'
    <3>1. CallerOf("mcast") = "filter"
      BY Zenon DEF CallerOf
    <3>2. Underway("mcast") => sleeping["filter"] # None
      BY <1>0, <3>1, SettingsNames, Zenon DEF Underway, SettingsTypes
    <3> QED BY <1>0, <1>1, <3>2, Zenon DEF Kept
  <2> QED BY <1>2, <2>1, Zenon DEF UpToDate
<1>4. SettingsTypes'
  <2>1. asked' \in [Se!Kinds -> Values \cup {None} \cup Limits]
    BY <1>0, <1>1, Zenon DEF SettingsTypes
  <2>2. v \in Asked("mcast")
    BY SettingsNames, Zenon DEF Asked
  <2>3. \A j \in Se!Kinds : asked'[j] \in Asked(j)
    BY <1>0, <1>2, <2>2, Zenon DEF SettingsTypes
  <2> QED BY <1>0, <1>1, <2>1, <2>3, Zenon DEF SettingsTypes
<1>5. Kept'
  BY <1>0, <1>1, <1>2, SettingsNames, Zenon DEF Kept
<1>6. Queued'
  <2>1. \A i \in DOMAIN pending : pending[i].kind \in Se!Kinds /\ Underway(pending[i].kind)
    BY <1>0, TheirKinds, Zenon
  <2>2. \A i \in DOMAIN pending : UpToDate(pending[i].kind, pending[i].value)'
    <3> SUFFICES ASSUME NEW i \in DOMAIN pending
                 PROVE  UpToDate(pending[i].kind, pending[i].value)'
      OBVIOUS
    <3> DEFINE j == pending[i].kind
               w == pending[i].value
    <3>1. j' = j /\ w' = w
      BY <1>1, Zenon
    <3>2. UpToDate(j, w)
      BY <1>0, Zenon DEF Queued
    <3>3. w = Se!Wire(j, asked'[j]) \/ (j = "mcast" /\ mac_flter_work')
      BY <1>3, <2>1, <3>2, Zenon DEF UpToDate
    <3> QED BY <3>1, <3>3, Zenon DEF UpToDate
  <2> QED BY <1>0, <1>1, <2>2, Zenon DEF Queued
<1>7. NoneInFlight' \/ OneInFlight'
  <2>1. OneInFlight => \A w : UpToDate(sleeping[cur_cmd], w) => UpToDate(sleeping[cur_cmd], w)'
    <3> SUFFICES ASSUME OneInFlight, NEW w, UpToDate(sleeping[cur_cmd], w)
                 PROVE  UpToDate(sleeping[cur_cmd], w)'
      OBVIOUS
    <3> DEFINE j == sleeping[cur_cmd]
    <3>1. j' = j /\ j \in Se!Kinds /\ Underway(j)
      BY <1>0, <1>1, TheirKinds, Zenon
    <3>2. w = Se!Wire(j, asked'[j]) \/ (j = "mcast" /\ mac_flter_work')
      BY <1>3, <3>1, Zenon DEF UpToDate
    <3> QED BY <3>1, <3>2, Zenon DEF UpToDate
  <2>2. sleeping'[cur_cmd] = sleeping[cur_cmd]
    BY <1>1, Zenon
  <2> QED BY <1>0, <1>1, <2>1, <2>2, FlightKept, Zenon
<1>8. Following'
  <2>1. \A j \in Se!Kinds : Underway(j) => Underway(j)'
    BY <1>1, Zenon DEF Underway
  <2>2. \A j \in unsent : j \in unsent'
    BY <1>1, Zenon
  <2>3. "mcast" \in unsent' \/ UpToDate("mcast", set_fw["mcast"])'
    BY <1>1, Zenon DEF UpToDate
  <2>4. \A j \in Se!Kinds \ {"mcast"} : UpToDate(j, set_fw[j]) => UpToDate(j, set_fw[j])'
    BY <1>1, <1>2, Zenon DEF UpToDate
  <2> QED BY <1>0, <1>1, <1>2, <2>1, <2>2, <2>3, <2>4, SettingsNames, Zenon DEF Following
<1> QED BY <1>0, <1>1, <1>4, <1>5, <1>6, <1>7, <1>8, Zenon DEF SettingsInv

\* update_mac_filter sends what the list holds now.
LEMMA UpdateMacFilterInv ==
    ASSUME SettingsInv, ~set_given_up, Se!update_mac_filter PROVE SettingsInv'
<1>0. SettingsTypes /\ Kept
  BY SettingsParts, Zenon
<1> DEFINE v == mcast_list
<1>1. /\ CallerOf("mcast") = "filter" /\ "mcast" \in Se!Kinds /\ "mcast" # "power"
      /\ "mcast" # "country"
  BY DEF CallerOf, Se!Kinds
<1>2. v = asked["mcast"] /\ v \in Asked("mcast") /\ Se!Wire("mcast", v) = v
  BY <1>0, <1>1, Zenon DEF Kept, SettingsTypes, Se!Wire
<1>3. Se!Wire("mcast", v) \in Carried
  BY <1>1, <1>2, WireType, Zenon
<1>4. asked' = [asked EXCEPT !["mcast"] = v]
  <2>1. asked' = asked
    BY Zenon DEF Se!update_mac_filter
  <2> QED BY <1>0, <1>2, <2>1 DEF SettingsTypes
<1>5. Se!prepare_command_request(CallerOf("mcast"), "mcast", Se!Wire("mcast", v))
  BY <1>1, <1>2, Zenon DEF Se!update_mac_filter, Se!cmd_set_mcast_mac_list
<1>6. set_port_open /\ mcast_list' = v /\ mac_flter_work' = FALSE
  BY <1>0, Zenon DEF Se!update_mac_filter, Kept
<1> QED BY <1>1, <1>2, <1>3, <1>4, <1>5, <1>6, AskInv, Zenon
     DEF Se!update_mac_filter, Se!privVars, Se!wireVars

\* Core 0 is idle or has one command, by what is on the wire.
LEMMA WhichFlight ==
    ASSUME SettingsTypes, NoneInFlight \/ OneInFlight
    PROVE  /\ cur_cmd = None => NoneInFlight
           /\ set_to_fw # << >> => OneInFlight /\ CommandSent
           /\ set_to_host # << >> => OneInFlight /\ AnswerSent
           /\ \A c \in Se!Callers : set_answer[c] # None => OneInFlight /\ AnswerThere /\ c = cur_cmd
<1>1. OneInFlight => cur_cmd # None
  BY SettingsNames, Zenon DEF OneInFlight
<1>2. set_to_fw # << >> => OneInFlight /\ CommandSent
  BY Zenon DEF NoneInFlight, OneInFlight, AnswerSent, AnswerThere
<1>3. set_to_host # << >> => OneInFlight /\ AnswerSent
  BY Zenon DEF NoneInFlight, OneInFlight, CommandSent, AnswerThere
<1>4. \A c \in Se!Callers : set_answer[c] # None => OneInFlight /\ AnswerThere /\ c = cur_cmd
  BY Zenon DEF NoneInFlight, OneInFlight, CommandSent, AnswerSent
<1> QED BY <1>1, <1>2, <1>3, <1>4, Zenon

\* esp_cmd_work hands the oldest command to core 0.
LEMMA SetCmdWorkInv ==
    ASSUME SettingsInv, ~set_given_up, Se!esp_cmd_work PROVE SettingsInv'
<1>0. /\ SettingsTypes /\ Kept /\ Queued /\ (NoneInFlight \/ OneInFlight) /\ Following
      /\ set_given_up = FALSE
  BY SettingsParts, Zenon
<1>a. PICK n : n = Head(pending)
  BY Zenon
<1>1. /\ cur_cmd = None /\ pending # << >> /\ cur_cmd' = n.caller
      /\ set_to_fw' = Append(set_to_fw, n) /\ pending' = Tail(pending)
      /\ UNCHANGED <<asked, country_code, tx_pwr, mac_address, mcast_list, set_port_open,
                     mac_flter_work, sleeping, unsent, set_answer, set_to_host, set_fw,
                     set_given_up>>
  BY <1>a, Zenon DEF Se!esp_cmd_work, Se!privVars, Se!filterVars
<1>2. NoneInFlight
  BY <1>0, <1>1, WhichFlight, Zenon
<1>3. pending \in Seq(Commands)
  BY <1>0, Zenon DEF SettingsTypes
<1>4. /\ pending' \in Seq(Commands) /\ n = pending[1] /\ 1 \in DOMAIN pending
      /\ \A i \in DOMAIN pending' : /\ i + 1 \in DOMAIN pending /\ i + 1 # 1
                                    /\ pending'[i] = pending[i + 1]
      /\ \A i, j \in DOMAIN pending' : i + 1 = j + 1 => i = j
  BY <1>a, <1>1, <1>3, Shorter
<1>5. /\ n.caller \in Se!Callers /\ n.kind \in Se!Kinds /\ sleeping[n.caller] = n.kind
      /\ UpToDate(n.kind, n.value)
  BY <1>0, <1>4, TheirKinds, Zenon DEF Queued
<1>6. n \in Commands
  BY <1>3, <1>4
<1>7. \A k, v : UpToDate(k, v) => UpToDate(k, v)'
  BY <1>1, Zenon DEF UpToDate, Se!Wire
<1>8. SettingsTypes' /\ Kept'
  BY <1>0, <1>1, <1>4, Zenon DEF SettingsTypes, Kept
<1>9. Queued'
  <2>1. \A i \in DOMAIN pending' :
          /\ pending'[i].caller # cur_cmd' /\ sleeping'[pending'[i].caller] = pending'[i].kind
          /\ UpToDate(pending'[i].kind, pending'[i].value)
    <3> SUFFICES ASSUME NEW i \in DOMAIN pending'
                 PROVE  /\ pending'[i].caller # n.caller
                        /\ sleeping[pending'[i].caller] = pending'[i].kind
                        /\ UpToDate(pending'[i].kind, pending'[i].value)
      BY <1>1, Zenon
    <3>1. i + 1 \in DOMAIN pending /\ i + 1 # 1 /\ pending'[i] = pending[i + 1]
      BY <1>4, Zenon
    <3>2. /\ sleeping[pending[i + 1].caller] = pending[i + 1].kind
          /\ UpToDate(pending[i + 1].kind, pending[i + 1].value)
      BY <1>0, <3>1, Zenon DEF Queued
    <3>3. pending[i + 1].caller # pending[1].caller
      BY <1>0, <1>4, <3>1, Zenon DEF Queued
    <3> QED BY <1>4, <3>1, <3>2, <3>3, Zenon
  <2>2. \A i, j \in DOMAIN pending' : pending'[i].caller = pending'[j].caller => i = j
    <3> SUFFICES ASSUME NEW i \in DOMAIN pending', NEW j \in DOMAIN pending',
                        pending'[i].caller = pending'[j].caller
                 PROVE  i = j
      BY Zenon
    <3>1. /\ i + 1 \in DOMAIN pending /\ pending'[i] = pending[i + 1]
          /\ j + 1 \in DOMAIN pending /\ pending'[j] = pending[j + 1]
      BY <1>4, Zenon
    <3>2. i + 1 = j + 1
      BY <1>0, <3>1, Zenon DEF Queued
    <3> QED BY <1>4, <3>2, Zenon
  <2>3. \A i \in DOMAIN pending' : UpToDate(pending[i].kind, pending[i].value)'
    BY <1>1, <2>1, Zenon DEF UpToDate
  <2> QED BY <2>1, <2>2, <2>3, Zenon DEF Queued
<1>10. OneInFlight'
  <2>1. set_to_fw' = <<n>>
    BY <1>1, <1>2, Singles, Zenon DEF NoneInFlight
  <2>2. UpToDate(n.kind, n.value)'
    BY <1>5, <1>7, Zenon
  <2>3. set_answer'[cur_cmd'] = None /\ set_to_host' = << >>
    BY <1>1, <1>2, <1>5, Zenon DEF NoneInFlight
  <2>4. n.kind = sleeping'[cur_cmd']
    BY <1>1, <1>5, Zenon
  <2>5. \E m \in Commands :
          set_to_fw' = <<m>> /\ m.kind = sleeping'[cur_cmd'] /\ UpToDate(m.kind, m.value)'
    BY <1>6, <2>1, <2>2, <2>4, Zenon
  <2>6. CommandSent'
    BY <2>3, <2>5, Zenon DEF CommandSent
  <2> QED BY <1>1, <1>2, <1>5, <2>6, Zenon DEF OneInFlight, NoneInFlight
<1>11. Following'
  BY <1>0, <1>1, <1>7, Zenon DEF Following, Underway, Se!Kinds, Se!Callers
<1> QED BY <1>0, <1>1, <1>8, <1>9, <1>10, <1>11, Zenon DEF SettingsInv

\* Core 0 applies the command it has, or refuses it, and says so.
LEMMA SetFirmwareAnswersInv ==
    ASSUME SettingsInv, ~set_given_up, Se!FirmwareAnswers PROVE SettingsInv'
<1>0. /\ SettingsTypes /\ Kept /\ Queued /\ (NoneInFlight \/ OneInFlight) /\ Following
      /\ set_given_up = FALSE
  BY SettingsParts, Zenon
<1> DEFINE n == Head(set_to_fw)
<1>1. PICK ok \in BOOLEAN :
        /\ set_fw' = IF ok THEN [set_fw EXCEPT ![n.kind] = n.value] ELSE set_fw
        /\ \E v \in {n.value, set_fw'[n.kind]} :
             set_to_host' = Append(set_to_host, [ok |-> ok, value |-> v])
  BY Zenon DEF Se!FirmwareAnswers
<1>2. PICK v \in {n.value, set_fw'[n.kind]} :
        set_to_host' = Append(set_to_host, [ok |-> ok, value |-> v])
  BY <1>1, Zenon
<1>3. /\ set_to_fw # << >> /\ set_to_fw' = Tail(set_to_fw)
      /\ UNCHANGED <<asked, country_code, tx_pwr, mac_address, mcast_list, set_port_open,
                     mac_flter_work, sleeping, pending, unsent, set_answer, cur_cmd, set_given_up>>
  BY Zenon DEF Se!FirmwareAnswers, Se!privVars, Se!filterVars, Se!queueVars
<1>4. OneInFlight /\ CommandSent
  BY <1>0, <1>3, WhichFlight, Zenon
<1>5. PICK m \in Commands :
        set_to_fw = <<m>> /\ m.kind = sleeping[cur_cmd] /\ UpToDate(m.kind, m.value)
  BY <1>4, Zenon DEF CommandSent
<1>6. n = m /\ set_to_fw' = << >>
  BY <1>3, <1>5, Singles, Zenon
<1> DEFINE k == m.kind
           r == [ok |-> ok, value |-> v]
<1>7. k \in Se!Kinds /\ m.value \in Carried
  BY <1>5 DEF Commands
<1>8. /\ set_fw' = IF ok THEN [set_fw EXCEPT ![k] = m.value] ELSE set_fw
      /\ v \in {m.value, set_fw'[k]}
  BY <1>1, <1>2, <1>6, Zenon
<1> HIDE DEF n
<1>9. /\ set_fw' \in [Se!Kinds -> Carried] /\ (ok => set_fw'[k] = m.value)
      /\ \A j \in Se!Kinds \ {k} : set_fw'[j] = set_fw[j]
  <2>1. set_fw \in [Se!Kinds -> Carried]
    BY <1>0, Zenon DEF SettingsTypes
  <2> QED BY <1>7, <1>8, <2>1, Zenon
<1>10. v \in Carried /\ (ok => v = set_fw'[k] /\ v = m.value)
  BY <1>7, <1>8, <1>9, Zenon
<1>11. r \in Responses /\ r.ok = ok /\ r.value = v
  BY <1>10, Zenon DEF Responses
<1>12. set_to_host' = <<r>>
  BY <1>2, <1>4, Singles, Zenon DEF CommandSent
<1> HIDE DEF k, r
<1>13. \A j, w : UpToDate(j, w) => UpToDate(j, w)'
  BY <1>3, Zenon DEF UpToDate, Se!Wire
<1>14. SettingsTypes' /\ Kept'
  BY <1>0, <1>3, <1>9, Zenon DEF SettingsTypes, Kept
<1>15. Queued'
  BY <1>0, <1>3, <1>13, QueueKept, Zenon
<1>16. OneInFlight'
  <2>1. Truthful(k, r)'
    BY <1>5, <1>10, <1>11, <1>13, Zenon DEF Truthful, k
  <2>2. sleeping'[cur_cmd'] = k
    BY <1>3, <1>5, Zenon DEF k
  <2>3. Truthful(sleeping[cur_cmd], r)'
    BY <2>1, <2>2, Zenon DEF Truthful, UpToDate
  <2>4. AnswerSent'
    BY <1>3, <1>4, <1>6, <1>11, <1>12, <2>3, Zenon DEF AnswerSent, CommandSent
  <2> QED BY <1>3, <1>4, <2>4, Zenon DEF OneInFlight
<1>17. Following'
  <2>1. Underway(k)' /\ \A j \in Se!Kinds : Underway(j) => Underway(j)'
    BY <1>3, <1>4, <1>5, Zenon DEF Underway, OneInFlight, k
  <2>2. \A j \in Se!Kinds \ {k} : j \in unsent' \/ Underway(j)' \/ UpToDate(j, set_fw[j])'
    <3> SUFFICES ASSUME NEW j \in Se!Kinds \ {k}
                 PROVE  j \in unsent' \/ Underway(j)' \/ UpToDate(j, set_fw[j])'
      BY Zenon
    <3>1. UpToDate(j, set_fw[j]) => UpToDate(j, set_fw[j])'
      BY <1>3, <1>9, Zenon DEF UpToDate
    <3> QED BY <1>0, <1>3, <2>1, <3>1, Zenon DEF Following
  <2> QED BY <1>0, <1>3, <1>9, <2>1, <2>2, SettingsNames, Zenon DEF Following
<1> QED BY <1>0, <1>3, <1>14, <1>15, <1>16, <1>17, Zenon DEF SettingsInv

\* process_cmd_resp hands the response to the command's caller.
LEMMA SetProcessRespInv ==
    ASSUME SettingsInv, ~set_given_up, Se!process_cmd_resp PROVE SettingsInv'
<1>0. /\ SettingsTypes /\ Kept /\ Queued /\ (NoneInFlight \/ OneInFlight) /\ Following
      /\ set_given_up = FALSE
  BY SettingsParts, Zenon
<1>1. /\ set_to_host # << >> /\ set_to_host' = Tail(set_to_host)
      /\ set_answer' = IF cur_cmd = None THEN set_answer
                       ELSE [set_answer EXCEPT ![cur_cmd] = Head(set_to_host)]
      /\ UNCHANGED <<asked, country_code, tx_pwr, mac_address, mcast_list, set_port_open,
                     mac_flter_work, sleeping, pending, unsent, cur_cmd, set_to_fw, set_fw,
                     set_given_up>>
  BY Zenon DEF Se!process_cmd_resp, Se!privVars, Se!filterVars, Se!queueVars
<1>2. OneInFlight /\ AnswerSent
  BY <1>0, <1>1, WhichFlight, Zenon
<1>3. PICK r \in Responses : set_to_host = <<r>> /\ Truthful(sleeping[cur_cmd], r)
  BY <1>2, Zenon DEF AnswerSent
<1>4. /\ cur_cmd \in Se!Callers /\ cur_cmd # None /\ Head(set_to_host) = r /\ set_to_host' = << >>
  BY <1>1, <1>2, <1>3, Singles, SettingsNames, Zenon DEF OneInFlight
<1>5. /\ set_answer' \in [Se!Callers -> Responses \cup {None}] /\ set_answer'[cur_cmd] = r
      /\ \A c \in Se!Callers \ {cur_cmd} : set_answer'[c] = set_answer[c]
  <2>1. set_answer \in [Se!Callers -> Responses \cup {None}]
    BY <1>0, Zenon DEF SettingsTypes
  <2>2. set_answer' = [set_answer EXCEPT ![cur_cmd] = r]
    BY <1>1, <1>4, Zenon
  <2> QED BY <1>3, <1>4, <2>1, <2>2, Zenon
<1>6. \A j, w : UpToDate(j, w) => UpToDate(j, w)'
  BY <1>1, Zenon DEF UpToDate, Se!Wire
<1>7. SettingsTypes' /\ Kept'
  BY <1>0, <1>1, <1>5, Zenon DEF SettingsTypes, Kept
<1>8. Queued'
  BY <1>0, <1>1, <1>6, QueueKept, Zenon
<1>9. OneInFlight'
  <2>1. Truthful(sleeping[cur_cmd], r)'
    BY <1>1, <1>3, Zenon DEF Truthful, UpToDate
  <2>2. set_answer'[cur_cmd'] = r
    BY <1>1, <1>5, Zenon
  <2>3. Truthful(sleeping[cur_cmd], set_answer[cur_cmd])'
    BY <2>1, <2>2, Zenon DEF Truthful, UpToDate
  <2>4. AnswerThere'
    BY <1>1, <1>2, <1>3, <1>4, <2>2, <2>3, Zenon DEF AnswerThere, AnswerSent
  <2> QED BY <1>1, <1>2, <1>5, <2>4, Zenon DEF OneInFlight
<1>10. Following'
  BY <1>0, <1>1, <1>6, Zenon DEF Following, Underway, Se!Kinds, Se!Callers
<1> QED BY <1>0, <1>1, <1>7, <1>8, <1>9, <1>10, Zenon DEF SettingsInv

\* The caller wakes.  Unanswered, the command is given up; answered, the
\* driver keeps what the response says.
LEMMA SetWaitInv ==
    ASSUME SettingsInv, ~set_given_up, NEW c \in Se!Callers, Se!wait_and_decode_cmd_resp(c)
    PROVE  SettingsInv'
<1>0. /\ SettingsTypes /\ Kept /\ Queued /\ (NoneInFlight \/ OneInFlight) /\ Following
      /\ set_given_up = FALSE
  BY SettingsParts, Zenon
<1> DEFINE k == sleeping[c]
           r == set_answer[c]
<1>1. set_given_up' = (set_given_up \/ r = None)
  BY Zenon DEF Se!wait_and_decode_cmd_resp
<1>2. CASE r = None
  BY <1>1, <1>2, Zenon DEF SettingsInv
<1>3. CASE r # None
  <2>1. OneInFlight /\ AnswerThere /\ c = cur_cmd
    BY <1>0, <1>3, WhichFlight, Zenon
  <2>2. k \in Se!Kinds /\ Truthful(k, r)
    BY <2>1, Zenon DEF OneInFlight, AnswerThere
  <2>3. /\ set_given_up' = FALSE /\ cur_cmd' = None
        /\ sleeping' = [sleeping EXCEPT ![c] = None]
        /\ set_answer' = [set_answer EXCEPT ![c] = None]
        /\ tx_pwr' = IF k = "power" /\ r # None THEN r.value ELSE tx_pwr
        /\ mac_address' = IF k = "mac" /\ r # None THEN r.value ELSE mac_address
        /\ unsent' = IF r # None /\ r.ok THEN unsent \ {k} ELSE unsent \cup {k}
        /\ pending' = Se!Withdraw(pending, c)
        /\ UNCHANGED <<asked, country_code, mcast_list, set_port_open, mac_flter_work, set_to_fw,
                       set_to_host, set_fw>>
    BY <1>0, <1>1, <1>3, Zenon DEF Se!wait_and_decode_cmd_resp, Se!decode_tx_power,
         Se!decode_mac_addr, Se!decode_common_resp, Se!filterVars
  <2>4. pending' = pending
    BY <1>0, <2>1, <2>3, Zenon DEF Se!Withdraw, Queued
  <2>5. /\ sleeping' \in [Se!Callers -> Se!Kinds \cup {None}] /\ sleeping'[c] = None
        /\ \A d \in Se!Callers \ {c} : sleeping'[d] = sleeping[d]
    <3>1. sleeping \in [Se!Callers -> Se!Kinds \cup {None}]
      BY <1>0, Zenon DEF SettingsTypes
    <3> QED BY <2>3, <3>1, Zenon
  <2>6. /\ set_answer' \in [Se!Callers -> Responses \cup {None}]
        /\ \A d \in Se!Callers : set_answer'[d] = None
    <3>1. set_answer \in [Se!Callers -> Responses \cup {None}]
      BY <1>0, Zenon DEF SettingsTypes
    <3>2. \A d \in Se!Callers \ {c} : set_answer[d] = None
      BY <2>1, Zenon DEF OneInFlight
    <3> QED BY <2>3, <3>1, <3>2, Zenon
  <2>7. \A j, w : UpToDate(j, w) => UpToDate(j, w)'
    BY <2>3, Zenon DEF UpToDate, Se!Wire
  <2>8. SettingsTypes' /\ Kept'
    <3>1. \A d \in Se!Callers : sleeping'[d] # None => CallerOf(sleeping'[d]) = d
      BY <1>0, <2>5, Zenon DEF SettingsTypes
    <3>2. sleeping'["filter"] # None => sleeping["filter"] # None
      BY <2>5, SettingsNames, Zenon
    <3> QED BY <1>0, <2>3, <2>4, <2>5, <2>6, <3>1, <3>2, Zenon DEF SettingsTypes, Kept
  <2>9. Queued'
    <3>1. \A i \in DOMAIN pending : /\ pending[i].caller # None
                                    /\ sleeping'[pending[i].caller] = pending[i].kind
      BY <1>0, <2>1, <2>5, TheirKinds, SettingsNames, Zenon DEF Queued
    <3>2. \A i \in DOMAIN pending : UpToDate(pending[i].kind, pending[i].value)'
      BY <1>0, <2>3, <2>4, Zenon DEF Queued, UpToDate
    <3> QED BY <1>0, <2>3, <2>4, <3>1, <3>2, Zenon DEF Queued
  <2>10. NoneInFlight'
    BY <2>1, <2>3, <2>6, Zenon DEF NoneInFlight, AnswerThere
  <2>11. Following'
    <3>1. \A j \in Se!Kinds \ {k} : Underway(j) => Underway(j)'
      BY <2>5, Zenon DEF Underway
    <3>2. \A j \in Se!Kinds \ {k} : j \in unsent => j \in unsent'
      BY <2>3, Zenon
    <3>3. k \in unsent' \/ (r.value = set_fw[k] /\ UpToDate(k, set_fw[k]))
      BY <2>2, <2>3, Zenon DEF Truthful
    <3>4. \A j \in Se!Kinds : UpToDate(j, set_fw[j]) => UpToDate(j, set_fw[j])'
      BY <2>3, Zenon DEF UpToDate
    <3>5. \A j \in Se!Kinds : j \in unsent' \/ Underway(j)' \/ UpToDate(j, set_fw[j])'
      BY <1>0, <2>2, <3>1, <3>2, <3>3, <3>4, Zenon DEF Following
    <3>6. "power" \in unsent' \/ Underway("power")' \/ asked'["power"] = None
            \/ tx_pwr' = set_fw'["power"]
      BY <1>0, <1>3, <2>3, <3>1, <3>2, <3>3, SettingsNames, Zenon DEF Following
    <3>7. "mac" \in unsent' \/ Underway("mac")' \/ mac_address' = set_fw'["mac"]
      BY <1>0, <1>3, <2>3, <3>1, <3>2, <3>3, SettingsNames, Zenon DEF Following
    <3> QED BY <3>5, <3>6, <3>7, Zenon DEF Following
  <2> QED BY <2>3, <2>8, <2>9, <2>10, <2>11, Zenon DEF SettingsInv
<1> QED BY <1>2, <1>3, Zenon

\* A command given up stays given up.
LEMMA GivenUpStays ==
    ASSUME set_given_up \in BOOLEAN, Se!Next
    PROVE  set_given_up' \in BOOLEAN /\ (set_given_up => set_given_up')
<1>1. CASE UNCHANGED set_given_up
  BY <1>1, Zenon
<1>2. ASSUME NEW c \in Se!Callers, Se!wait_and_decode_cmd_resp(c)
      PROVE  set_given_up' \in BOOLEAN /\ (set_given_up => set_given_up')
  BY <1>2, Zenon DEF Se!wait_and_decode_cmd_resp
<1> QED BY <1>1, <1>2, Zenon DEF Se!Next, Se!esp_reg_notifier, Se!esp_cfg80211_set_tx_power,
     Se!esp_inetaddr_event, Se!cmd_set_ip_address, Se!esp_set_mac_address, Se!cmd_set_mac,
     Se!esp_cfg80211_add_key, Se!cmd_add_key, Se!esp_cfg80211_set_default_key,
     Se!cmd_set_default_key, Se!Forward, Se!esp_port_open, Se!esp_set_rx_mode,
     Se!update_mac_filter, Se!esp_cmd_work, Se!FirmwareAnswers, Se!process_cmd_resp,
     Se!esp_commands_teardown

\* Every step keeps the invariant.
LEMMA SettingsNext == ASSUME SettingsInv, Se!Next PROVE SettingsInv'
<1>1. CASE set_given_up
  BY <1>1, GivenUpStays, Zenon DEF SettingsInv
<1> SUFFICES ASSUME ~set_given_up PROVE SettingsInv'
  BY <1>1, Zenon
<1>2. ASSUME NEW v \in Values, Se!esp_reg_notifier(v) PROVE SettingsInv'
  BY <1>2, RegNotifierInv, Zenon
<1>3. ASSUME NEW mbm \in Limits, Se!esp_cfg80211_set_tx_power(mbm) PROVE SettingsInv'
  BY <1>3, SetTxPowerInv, Zenon
<1>4. CASE \/ Se!esp_inetaddr_event \/ Se!esp_set_mac_address \/ Se!esp_cfg80211_add_key
           \/ Se!esp_cfg80211_set_default_key
  <2>1. /\ CallerOf("ip") = "rtnl" /\ CallerOf("mac") = "rtnl"
        /\ CallerOf("key") = "wiphy" /\ CallerOf("default_key") = "wiphy"
    BY DEF CallerOf
  <2>2. CASE Se!esp_inetaddr_event
    <3>1. PICK v \in Values \cup {None} : Se!Forward("rtnl", "ip", v)
      BY <2>2, Zenon DEF Se!esp_inetaddr_event, Se!cmd_set_ip_address
    <3> QED BY <2>1, <3>1, ForwardInv, Zenon
  <2>3. CASE Se!esp_set_mac_address
    <3>1. PICK v \in Values : Se!Forward("rtnl", "mac", v)
      BY <2>3, Zenon DEF Se!esp_set_mac_address, Se!cmd_set_mac
    <3> QED BY <2>1, <3>1, ForwardInv, Zenon
  <2>4. CASE Se!esp_cfg80211_add_key
    <3>1. PICK v \in Values : Se!Forward("wiphy", "key", v)
      BY <2>4, Zenon DEF Se!esp_cfg80211_add_key, Se!cmd_add_key
    <3> QED BY <2>1, <3>1, ForwardInv, Zenon
  <2>5. CASE Se!esp_cfg80211_set_default_key
    <3>1. PICK v \in Values : Se!Forward("wiphy", "default_key", v)
      BY <2>5, Zenon DEF Se!esp_cfg80211_set_default_key, Se!cmd_set_default_key
    <3> QED BY <2>1, <3>1, ForwardInv, Zenon
  <2> QED BY <1>4, <2>2, <2>3, <2>4, <2>5, Zenon
<1>5. CASE Se!esp_port_open
  BY <1>5, SettingsFrame, Zenon DEF Se!esp_port_open, Se!privVars, Se!queueVars, Se!wireVars
<1>6. ASSUME NEW v \in Values, Se!esp_set_rx_mode(v) PROVE SettingsInv'
  BY <1>6, SetRxModeInv, Zenon
<1>7. CASE Se!update_mac_filter
  BY <1>7, UpdateMacFilterInv, Zenon
<1>8. CASE Se!esp_cmd_work
  BY <1>8, SetCmdWorkInv, Zenon
<1>9. CASE Se!FirmwareAnswers
  BY <1>9, SetFirmwareAnswersInv, Zenon
<1>10. CASE Se!process_cmd_resp
  BY <1>10, SetProcessRespInv, Zenon
<1>11. ASSUME NEW c \in Se!Callers, Se!wait_and_decode_cmd_resp(c) PROVE SettingsInv'
  BY <1>11, SetWaitInv, Zenon
<1>12. CASE Se!esp_commands_teardown
  BY <1>12, SettingsFrame, Zenon
     DEF Se!esp_commands_teardown, Se!privVars, Se!filterVars, Se!queueVars, Se!wireVars
<1> QED BY <1>2, <1>3, <1>4, <1>5, <1>6, <1>7, <1>8, <1>9, <1>10, <1>11, <1>12, Zenon DEF Se!Next

\* The invariant holds throughout.
LEMMA SettingsAlways == Spec => []SettingsInv
<1>1. Init => SettingsInv
  BY SettingsInit, Zenon DEF Init
<1>2. SettingsInv /\ [Next]_vars => SettingsInv'
  <2> SUFFICES ASSUME SettingsInv, [Next]_vars PROVE SettingsInv'
    BY Zenon
  <2>1. CASE Se!Next
    BY <2>1, SettingsNext, Zenon
  <2>2. CASE UNCHANGED settingsVars
    BY <2>2, SettingsFrame, Zenon DEF settingsVars
  <2> QED BY <2>1, <2>2, Zenon DEF Next, vars
<1> QED BY <1>1, <1>2, PTL DEF Spec

\* Core 0 follows what the stack asked for and the driver reports what core 0
\* has, the power in whole dBm, whatever way the commands of the three callers,
\* the multicast list and the responses interleave, until a command is given up
\* (CoreZeroFollows).
THEOREM SettingsFollow == Spec => []CoreZeroFollows
<1>1. SettingsInv => CoreZeroFollows
  <2> SUFFICES ASSUME SettingsInv, ~set_given_up PROVE CoreZeroFollows
    BY Zenon DEF CoreZeroFollows, Se!CoreZeroFollows, Se!ReportsTheTruth, Se!PowerAsAsked
  <2>1. SettingsTypes /\ Following
    BY SettingsParts, Zenon
  <2>2. ASSUME NEW k \in Se!Kinds, Se!Settled(k), k \notin unsent
        PROVE  set_fw[k] = Se!Wire(k, asked[k])
    BY <2>1, <2>2, Zenon DEF Following, Underway, UpToDate, Se!Settled
  <2>3. Se!CoreZeroFollows
    BY <2>2, Zenon DEF Se!CoreZeroFollows
  <2>4. Se!ReportsTheTruth
    BY <2>1, Zenon DEF Se!ReportsTheTruth, Following, Underway, Se!Settled
  <2>5. Se!PowerAsAsked
    <3> SUFFICES ASSUME Se!Settled("power"), "power" \notin unsent, asked["power"] # None,
                        asked["power"] >= 0
                 PROVE  Se!esp_cfg80211_get_tx_power = asked["power"] \div 100
      BY Zenon DEF Se!PowerAsAsked
    <3> DEFINE m == asked["power"]
    <3>1. tx_pwr = Se!Wire("power", m)
      BY <2>2, <2>4, SettingsNames, Zenon DEF Se!ReportsTheTruth
    <3>2. m \in Asked("power")
      BY <2>1, SettingsNames, Zenon DEF SettingsTypes
    <3>3. m # None /\ m >= 0
      OBVIOUS
    <3> HIDE DEF m
    <3>4. Se!esp_pwr_to_dbm(tx_pwr) = m \div 100
      BY <3>1, <3>2, <3>3, PowerRounds, Zenon
    <3> QED BY <3>4, Zenon DEF Se!esp_cfg80211_get_tx_power, m
  <2> QED BY <2>3, <2>4, <2>5, Zenon DEF CoreZeroFollows
<1> QED BY <1>1, SettingsAlways, PTL
=============================================================================
