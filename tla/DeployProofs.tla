---------------------------- MODULE DeployProofs ----------------------------
(***************************************************************************)
(* Theorems about Deploy, for any nodes, processes, requests, scenes and   *)
(* number of commands, given in any order and interrupted at any step.     *)
(*                                                                         *)
(* First what is true of the plans and the scripts, whose steps and lines  *)
(* are taken off one by one; then the invariant, and for every step of a   *)
(* command, a script, a process or a request that it is kept; last what    *)
(* flush-cache leaves in the trees.                                        *)
(***************************************************************************)
EXTENDS Deploy, TLAPS, SequenceTheorems

-----------------------------------------------------------------------------
(* What is left to do, and the scripts *)

Has(s, x) == \E i \in 1 .. Len(s) : s[i] = x

Steps == {"connect", "clean", "upload", "chmod", "start", "verify", "stop",
          "script", "flush", "clear", "policy", "wait", "failed"}

\* What every plan, and what is left of it, keeps to at its i-th step.
PlannedAt(s, i) ==
  /\ s[i] = "upload" => i < Len(s) /\ s[i + 1] = "chmod"
  /\ s[i] = "verify" => i = Len(s)
  /\ s[i] = "script" =>
       i = Len(s) /\ \A j \in 1 .. Len(s) : s[j] \in {"connect", "script"}
  /\ s[i] = "start" =>
       \A j \in 1 .. Len(s) : s[j] \in {"clean", "stop", "start"} => j <= i

Planned(s) == s \in Seq(Steps) /\ \A i \in 1 .. Len(s) : PlannedAt(s, i)

Starters == {"nohup", "tmux", "task", "lb start", "proxy start"}

Lines == Starters \cup {"hup", "hup task", "term lb", "term proxy", "term any",
                        "kill", "fuser", "rm", "health", "error"} \cup Known

\* A script starts one process at most, after it has ended the old ones, and
\* looks whether all is well last.
Late == Starters \cup {"term lb", "kill"}

Written(s) ==
  /\ s \in Seq(Lines)
  /\ \A i, j \in 1 .. Len(s) :
       s[j] \in Late =>
         (s[i] \in Starters => j <= i) /\ (s[i] = "health" => j < i)

LEMMA HasInTail ==
  ASSUME NEW S, NEW s \in Seq(S), s # <<>>
  PROVE  /\ Tail(s) \in Seq(S) /\ Head(s) \in S /\ Has(s, Head(s))
         /\ \A x : Has(Tail(s), x) => Has(s, x)
         /\ \A x : Has(s, x) /\ x # Head(s) => Has(Tail(s), x)
  <1>1. /\ Tail(s) \in Seq(S) /\ Len(Tail(s)) = Len(s) - 1 /\ Len(s) \in Nat
        /\ \A i \in 1 .. Len(Tail(s)) : Tail(s)[i] = s[i + 1]
    OBVIOUS
  <1>2. Head(s) = s[1] /\ s[1] \in S /\ 1 \in 1 .. Len(s)
    OBVIOUS
  <1>3. ASSUME NEW x, Has(Tail(s), x) PROVE Has(s, x)
    BY <1>1, <1>3 DEF Has
  <1>4. ASSUME NEW x, Has(s, x), x # Head(s) PROVE Has(Tail(s), x)
    <2>1. PICK i \in 1 .. Len(s) : s[i] = x
      BY <1>4 DEF Has
    <2>2. i - 1 \in 1 .. Len(Tail(s)) /\ (i - 1) + 1 = i
      BY <1>1, <1>2, <1>4, <2>1
    <2> QED
      BY <1>1, <2>1, <2>2 DEF Has
  <1> QED
    BY <1>1, <1>2, <1>3, <1>4 DEF Has

LEMMA HasAfter ==
  ASSUME NEW S, NEW s \in Seq(S), NEW w \in S
  PROVE  /\ <<w>> \o s \in Seq(S) /\ <<w>> \o s # <<>> /\ Head(<<w>> \o s) = w
         /\ \A x : Has(<<w>> \o s, x) <=> x = w \/ Has(s, x)
  <1> DEFINE u == <<w>> \o s
  <1>1. /\ u \in Seq(S) /\ Len(u) = Len(s) + 1 /\ Len(s) \in Nat /\ u[1] = w
        /\ \A i \in 1 .. Len(s) : u[i + 1] = s[i]
    OBVIOUS
  <1>2. u # <<>> /\ Head(u) = w
    OBVIOUS
  <1> HIDE DEF u
  <1>3. ASSUME NEW x, Has(u, x) PROVE x = w \/ Has(s, x)
    <2>1. PICK i \in 1 .. Len(u) : u[i] = x
      BY <1>3 DEF Has
    <2>2. CASE i # 1
      <3>1. i - 1 \in 1 .. Len(s) /\ (i - 1) + 1 = i
        BY <1>1, <2>2
      <3> QED
        BY <1>1, <2>1, <3>1 DEF Has
    <2> QED
      BY <1>1, <2>1, <2>2
  <1>4. ASSUME NEW x, x = w \/ Has(s, x) PROVE Has(u, x)
    <2>1. 1 \in 1 .. Len(u) /\ \A i \in 1 .. Len(s) : i + 1 \in 1 .. Len(u)
      BY <1>1
    <2> QED
      BY <1>1, <1>4, <2>1 DEF Has
  <1> QED
    BY <1>1, <1>2, <1>3, <1>4 DEF u

\* t is the tail of s.
Rests(s, t) ==
  /\ Len(t) \in Nat /\ Len(s) = Len(t) + 1 /\ 1 \in 1 .. Len(s)
  /\ \A i \in 1 .. Len(t) : i + 1 \in 1 .. Len(s) /\ t[i] = s[i + 1]

LEMMA TailRests ==
  ASSUME NEW S, NEW s \in Seq(S), s # <<>>
  PROVE  /\ Tail(s) \in Seq(S) /\ Head(s) = s[1] /\ Rests(s, Tail(s))
         /\ Tail(s) # <<>> => Len(Tail(s)) > 0 /\ Head(Tail(s)) = Tail(s)[1]
         /\ Len(Tail(s)) = 0 => Tail(s) = <<>>
  <1>1. /\ Tail(s) \in Seq(S) /\ Len(Tail(s)) = Len(s) - 1 /\ Len(s) \in Nat
        /\ \A i \in 1 .. Len(Tail(s)) : Tail(s)[i] = s[i + 1]
        /\ Head(s) = s[1] /\ 1 \in 1 .. Len(s)
    OBVIOUS
  <1>2. Rests(s, Tail(s))
    BY <1>1 DEF Rests
  <1>3. Tail(s) # <<>> => Len(Tail(s)) > 0 /\ Head(Tail(s)) = Tail(s)[1]
    BY <1>1
  <1>4. Len(Tail(s)) = 0 => Tail(s) = <<>>
    BY <1>1, EmptySeq
  <1> QED
    BY <1>1, <1>2, <1>3, <1>4

LEMMA PlannedRests ==
  ASSUME NEW s, NEW t, Rests(s, t), \A i \in 1 .. Len(s) : PlannedAt(s, i)
  PROVE  /\ \A i \in 1 .. Len(t) : PlannedAt(t, i)
         /\ s[1] = "upload" => Len(t) > 0 /\ t[1] = "chmod"
         /\ s[1] = "verify" \/ s[1] = "script" => Len(t) = 0
         /\ s[1] = "start" => ~Has(t, "start") /\ ~Has(t, "clean")
                              /\ ~Has(t, "stop")
         /\ s[1] \notin {"connect", "script"} => ~Has(s, "script")
  <1>1. ASSUME NEW i \in 1 .. Len(t) PROVE PlannedAt(t, i)
    <2>1. PlannedAt(s, i + 1) /\ t[i] = s[i + 1] /\ i + 1 \in 1 .. Len(s)
      BY <1>1 DEF Rests
    <2>2. t[i] = "upload" => i < Len(t) /\ t[i + 1] = "chmod"
      BY <2>1 DEF Rests, PlannedAt
    <2>3. t[i] = "verify" => i = Len(t)
      BY <2>1 DEF Rests, PlannedAt
    <2>4. t[i] = "script" =>
            i = Len(t) /\ \A j \in 1 .. Len(t) : t[j] \in {"connect", "script"}
      BY <2>1 DEF Rests, PlannedAt
    <2>5. ASSUME t[i] = "start", NEW j \in 1 .. Len(t),
                 t[j] \in {"clean", "stop", "start"}
          PROVE  j <= i
      BY <2>1, <2>5 DEF Rests, PlannedAt
    <2> QED
      BY <2>2, <2>3, <2>4, <2>5 DEF PlannedAt
  <1>2. PlannedAt(s, 1) /\ 1 \in 1 .. Len(s)
    BY DEF Rests
  <1>3. s[1] = "upload" => Len(t) > 0 /\ t[1] = "chmod"
    BY <1>2 DEF Rests, PlannedAt
  <1>4. s[1] = "verify" \/ s[1] = "script" => Len(t) = 0
    BY <1>2 DEF Rests, PlannedAt
  <1>5. ASSUME s[1] = "start", NEW i \in 1 .. Len(t),
               t[i] \in {"clean", "stop", "start"}
        PROVE  FALSE
    <2>1. i + 1 <= 1
      BY <1>2, <1>5 DEF Rests, PlannedAt
    <2> QED
      BY <2>1
  <1>6. ASSUME s[1] \notin {"connect", "script"}, NEW i \in 1 .. Len(s),
               s[i] = "script"
        PROVE  FALSE
    <2>1. PlannedAt(s, i)
      BY <1>6
    <2> QED
      BY <1>2, <1>6, <2>1 DEF PlannedAt
  <1> QED
    BY <1>1, <1>3, <1>4, <1>5, <1>6 DEF Has

LEMMA PlannedTail ==
  ASSUME NEW s, Planned(s), s # <<>>
  PROVE  /\ Planned(Tail(s))
         /\ Head(s) = "upload" => Tail(s) # <<>> /\ Head(Tail(s)) = "chmod"
         /\ Head(s) = "verify" \/ Head(s) = "script" => Tail(s) = <<>>
         /\ Head(s) = "start" => ~Has(Tail(s), "start") /\ ~Has(Tail(s), "clean")
                                 /\ ~Has(Tail(s), "stop")
         /\ Head(s) \notin {"connect", "script"} => ~Has(s, "script")
  <1>1. s \in Seq(Steps) /\ \A i \in 1 .. Len(s) : PlannedAt(s, i)
    BY DEF Planned
  <1>2. /\ Tail(s) \in Seq(Steps) /\ Head(s) = s[1] /\ Rests(s, Tail(s))
        /\ Tail(s) # <<>> => Len(Tail(s)) > 0 /\ Head(Tail(s)) = Tail(s)[1]
        /\ Len(Tail(s)) = 0 => Tail(s) = <<>>
    BY <1>1, TailRests
  <1> DEFINE t == Tail(s)
  <1> HIDE DEF t
  <1>3. /\ \A i \in 1 .. Len(t) : PlannedAt(t, i)
        /\ s[1] = "upload" => Len(t) > 0 /\ t[1] = "chmod"
        /\ s[1] = "verify" \/ s[1] = "script" => Len(t) = 0
        /\ s[1] = "start" => ~Has(t, "start") /\ ~Has(t, "clean")
                             /\ ~Has(t, "stop")
        /\ s[1] \notin {"connect", "script"} => ~Has(s, "script")
    BY <1>1, <1>2, PlannedRests DEF t
  <1>4. Len(t) > 0 => t # <<>>
    OBVIOUS
  <1> QED
    BY <1>2, <1>3, <1>4 DEF Planned, t

LEMMA PlannedAfter ==
  ASSUME NEW s, Planned(s), ~Has(s, "script"), NEW w \in {"wait", "failed"}
  PROVE  Planned(<<w>> \o s)
  <1> DEFINE u == <<w>> \o s
  <1>0. s \in Seq(Steps) /\ w \in Steps
    BY DEF Planned, Steps
  <1>1. /\ u \in Seq(Steps) /\ Len(u) = Len(s) + 1 /\ Len(s) \in Nat /\ u[1] = w
        /\ \A i \in 1 .. Len(s) : u[i + 1] = s[i]
    BY <1>0
  <1> HIDE DEF u
  <1>2. \A i \in 1 .. Len(u) : i = 1 \/ (i - 1 \in 1 .. Len(s) /\ u[i] = s[i - 1])
    <2>1. ASSUME NEW i \in 1 .. Len(u), i # 1
          PROVE  i - 1 \in 1 .. Len(s) /\ (i - 1) + 1 = i
      BY <1>1, <2>1
    <2> QED
      BY <1>1, <2>1
  <1>3. \A i \in 1 .. Len(s) : s[i] # "script"
    BY DEF Has
  <1>4. ASSUME NEW i \in 1 .. Len(u)
        PROVE  /\ u[i] = "upload" => i < Len(u) /\ u[i + 1] = "chmod"
               /\ u[i] = "verify" => i = Len(u)
               /\ u[i] # "script"
               /\ u[i] = "start" => \A j \in 1 .. Len(u) :
                    u[j] \in {"clean", "stop", "start"} => j <= i
    <2>1. CASE i = 1
      BY <1>1, <2>1
    <2>2. CASE i # 1
      <3>1. i - 1 \in 1 .. Len(s) /\ u[i] = s[i - 1]
        BY <1>2, <2>2
      <3>0. PlannedAt(s, i - 1)
        BY <3>1 DEF Planned
      <3>2. u[i] = "upload" => i - 1 < Len(s) /\ s[(i - 1) + 1] = "chmod"
        BY <3>0, <3>1 DEF PlannedAt
      <3>3. u[i] = "upload" => i < Len(u) /\ u[i + 1] = "chmod"
        <4>1. u[i] = "upload" => i \in 1 .. Len(s) /\ (i - 1) + 1 = i
          BY <1>1, <3>2, <2>2
        <4> QED
          BY <1>1, <3>2, <4>1
      <3>4. u[i] = "verify" => i = Len(u)
        BY <1>1, <3>0, <3>1 DEF PlannedAt
      <3>5. ASSUME u[i] = "start", NEW j \in 1 .. Len(u),
                   u[j] \in {"clean", "stop", "start"}
            PROVE  j <= i
        <4>1. j = 1 \/ (j - 1 \in 1 .. Len(s) /\ u[j] = s[j - 1])
          BY <1>2
        <4>2. j = 1 \/ j - 1 <= i - 1
          BY <3>0, <3>1, <3>5, <4>1 DEF PlannedAt
        <4> QED
          BY <4>2
      <3> QED
        BY <1>3, <3>1, <3>3, <3>4, <3>5
    <2> QED
      BY <2>1, <2>2
  <1> QED
    BY <1>1, <1>4 DEF Planned, PlannedAt, u

LEMMA WrittenTail ==
  ASSUME NEW s, Written(s), s # <<>>
  PROVE  /\ Written(Tail(s))
         /\ Head(s) \in Starters \cup {"health"} =>
              \A x \in Late : ~Has(Tail(s), x)
  <1> DEFINE t == Tail(s)
  <1>1. s \in Seq(Lines) /\ t \in Seq(Lines) /\ Head(s) = s[1] /\ Rests(s, t)
    BY TailRests DEF Written
  <1> HIDE DEF t
  <1>2. \A i, j \in 1 .. Len(s) : s[j] \in Late =>
          (s[i] \in Starters => j <= i) /\ (s[i] = "health" => j < i)
    BY DEF Written
  <1>3. ASSUME NEW i \in 1 .. Len(t), NEW j \in 1 .. Len(t), t[j] \in Late
        PROVE  (t[i] \in Starters => j <= i) /\ (t[i] = "health" => j < i)
    BY <1>1, <1>2, <1>3 DEF Rests
  <1>4. Written(t)
    BY <1>1, <1>3 DEF Written
  <1>5. ASSUME Head(s) \in Starters \cup {"health"}, NEW i \in 1 .. Len(t),
               t[i] \in Late
        PROVE  FALSE
    <2>1. i + 1 <= 1
      BY <1>1, <1>2, <1>5 DEF Rests
    <2> QED
      BY <2>1
  <1> QED
    BY <1>4, <1>5 DEF Has, t

LEMMA PlannedTuples ==
  /\ Planned(<<>>) /\ Planned(<<"script">>) /\ Planned(<<"connect">>)
  /\ Planned(<<"connect", "script">>) /\ Planned(<<"flush", "clear">>)
  /\ Planned(<<"clear">>) /\ Planned(<<"policy">>)
  /\ Planned(<<"upload", "chmod">>) /\ Planned(<<"clean", "upload", "chmod">>)
  /\ Planned(<<"connect", "clean", "upload", "chmod">>)
  /\ Planned(<<"clean", "upload", "chmod", "start">>)
  /\ Planned(<<"connect", "clean", "upload", "chmod", "stop", "start">>)
  /\ Planned(<<"connect", "clean", "upload", "chmod", "start", "verify">>)
  <1> USE DEF Planned, PlannedAt, Steps
  <1>1. Planned(<<>>)
    OBVIOUS
  <1>2. Planned(<<"script">>) /\ Planned(<<"connect">>)
    OBVIOUS
  <1>3. Planned(<<"connect", "script">>) /\ Planned(<<"flush", "clear">>)
    OBVIOUS
  <1>4. Planned(<<"clear">>) /\ Planned(<<"policy">>)
    OBVIOUS
  <1>5. Planned(<<"upload", "chmod">>)
    OBVIOUS
  <1>6. Planned(<<"clean", "upload", "chmod">>)
    OBVIOUS
  <1>7. Planned(<<"connect", "clean", "upload", "chmod">>)
    OBVIOUS
  <1>8. Planned(<<"clean", "upload", "chmod", "start">>)
    OBVIOUS
  <1>9. Planned(<<"connect", "clean", "upload", "chmod", "stop", "start">>)
    OBVIOUS
  <1>10. Planned(<<"connect", "clean", "upload", "chmod", "start", "verify">>)
    OBVIOUS
  <1> HIDE DEF Planned
  <1> QED
    BY <1>1, <1>2, <1>3, <1>4, <1>5, <1>6, <1>7, <1>8, <1>9, <1>10

LEMMA WrittenTuples ==
  ASSUME NEW a \in Lines, a \notin Late, a # "health", NEW b \in Lines,
         NEW d \in Lines, d \notin Late, d # "health",
         NEW e \in Lines, e \notin Late, e # "health",
         NEW t \in Lines, t \notin Starters, NEW u \in Lines,
         "health" \in Lines, "health" \notin Late, Starters \subseteq Late
  PROVE  /\ Written(<<b>>) /\ Written(<<a, b>>) /\ Written(<<a, b, d>>)
         /\ Written(<<a, b, d, e>>)
         /\ t # "health" => Written(<<a, t, u, "health">>)
  <1>3. Written(<<b>>)
    BY DEF Written
  <1>4. Written(<<a, b>>)
    BY DEF Written
  <1>5. Written(<<a, b, d>>)
    BY DEF Written
  <1>6. Written(<<a, b, d, e>>)
    BY DEF Written
  <1>7. t # "health" => Written(<<a, t, u, "health">>)
    BY DEF Written
  <1> QED
    BY <1>3, <1>4, <1>5, <1>6, <1>7

\* Not to be asked whether old processes are ended first.
Harmless(s) ==
  /\ Planned(s) /\ ~Has(s, "start") /\ ~Has(s, "verify") /\ ~Has(s, "stop")
  /\ ~Has(s, "flush")

LEMMA HarmlessTuples ==
  /\ Harmless(<<>>) /\ Harmless(<<"script">>) /\ Harmless(<<"connect">>)
  /\ Harmless(<<"connect", "script">>) /\ Harmless(<<"clear">>) /\ Harmless(<<"policy">>)
  /\ Harmless(<<"upload", "chmod">>)
  /\ Harmless(<<"clean", "upload", "chmod">>)
  /\ Harmless(<<"connect", "clean", "upload", "chmod">>)
  <1> USE PlannedTuples DEF Harmless, Has
  <1>1. Harmless(<<>>) /\ Harmless(<<"script">>) /\ Harmless(<<"connect">>)
    OBVIOUS
  <1>2. Harmless(<<"connect", "script">>)
    OBVIOUS
  <1>3. Harmless(<<"clear">>) /\ Harmless(<<"policy">>)
    OBVIOUS
  <1>4. Harmless(<<"upload", "chmod">>)
    OBVIOUS
  <1>5. Harmless(<<"clean", "upload", "chmod">>)
    OBVIOUS
  <1>6. Harmless(<<"connect", "clean", "upload", "chmod">>)
    OBVIOUS
  <1> HIDE DEF Harmless
  <1> QED
    BY <1>1, <1>2, <1>3, <1>4, <1>5, <1>6

\* What else is asked of the plan of a command: only those of which the old
\* processes are ended first start one, or wait for one.
PlanFits(kind, s) ==
  /\ Planned(s)
  /\ Has(s, "start") /\ kind # "proxy" =>
       kind # "upload" /\ (Has(s, "clean") \/ Has(s, "stop"))
  /\ Has(s, "verify") /\ kind = "proxy" => ~Modal /\ Has(s, "clean")
  /\ Has(s, "verify") => kind # "restart"
  /\ Has(s, "stop") => kind # "proxy"
  /\ Has(s, "flush") => kind = "flush"

LEMMA FourAndTwo ==
  ASSUME NEW a, NEW b, NEW d, NEW e, NEW f, NEW g
  PROVE  <<a, b, d, e>> \o <<f, g>> = <<a, b, d, e, f, g>>
  <1> DEFINE u == <<a, b, d, e>> \o <<f, g>>
             v == <<a, b, d, e, f, g>>
             S == {a, b, d, e, f, g}
  <1>1. u \in Seq(S) /\ Len(u) = 6
    OBVIOUS
  <1>2. v \in Seq(S) /\ Len(v) = 6
    OBVIOUS
  <1>3. \A i \in 1 .. 6 : u[i] = v[i]
    OBVIOUS
  <1> HIDE DEF u, v, S
  <1>4. u = v
    BY <1>1, <1>2, <1>3, SeqEqual
  <1> QED
    BY <1>4 DEF u, v

LEMMA PlanFacts ==
  ASSUME NEW kind \in Known PROVE PlanFits(kind, Plan(kind))
  <1>1. ASSUME NEW s, Harmless(s) PROVE PlanFits(kind, s)
    BY <1>1 DEF PlanFits, Harmless
  <1>2. ASSUME NEW s, Planned(s), Has(s, "clean"),
               kind \notin {"upload", "proxy", "restart"}, ~Has(s, "flush")
        PROVE  PlanFits(kind, s)
    BY <1>2 DEF PlanFits
  <1>3. Harmless(DeployGotoni)
    BY HarmlessTuples DEF DeployGotoni
  <1>4. BuildPlan(FALSE) = DeployGotoni
    BY DEF BuildPlan, DeployGotoni
  <1>5. ASSUME kind \notin {"upload", "proxy", "restart"}
        PROVE  PlanFits(kind, SetupPlan)
    <2>1. CASE Modal
      <3>1. SetupPlan = <<"connect">>
        BY <2>1 DEF SetupPlan, DeployGotoni, DeployLBStrategy
      <3> QED
        BY <1>1, <3>1, HarmlessTuples
    <2>2. CASE ~Modal
      <3>1. SetupPlan = <<"connect", "clean", "upload", "chmod">> \o <<"stop", "start">>
        BY <2>2 DEF SetupPlan, DeployGotoni, DeployLBStrategy
      <3>4. SetupPlan = <<"connect", "clean", "upload", "chmod", "stop", "start">>
        BY <3>1, FourAndTwo
      <3>2. Has(<<"connect", "clean", "upload", "chmod", "stop", "start">>, "clean")
        BY DEF Has
      <3> QED
        <4>1. ~Has(<<"connect", "clean", "upload", "chmod", "stop", "start">>, "flush")
          BY DEF Has
        <4> QED
          BY <1>2, <1>5, <3>2, <3>4, <4>1, PlannedTuples
    <2> QED
      BY <2>1, <2>2
  <1>6. /\ Has(<<"connect", "clean", "upload", "chmod", "start", "verify">>, "clean")
        /\ ~Has(<<"connect", "clean", "upload", "chmod", "start", "verify">>, "flush")
    BY DEF Has
  <1>7. CASE kind = "deploy"
    <2>1. Plan("deploy") = DeployPlan
      BY DEF Plan, PolicyKinds
    <2> QED
      BY <1>1, <1>2, <1>6, <1>7, <2>1, HarmlessTuples, PlannedTuples DEF DeployPlan
  <1>8. CASE kind = "proxy"
    <2>1. Plan("proxy") = IF Modal THEN ModalProxyPlan ELSE ProxyPlan
      BY DEF Plan, PolicyKinds
    <2>2. /\ Planned(ModalProxyPlan) /\ ~Has(ModalProxyPlan, "verify")
          /\ ~Has(ModalProxyPlan, "stop") /\ ~Has(ModalProxyPlan, "flush")
      BY PlannedTuples DEF ModalProxyPlan, Has
    <2>3. /\ Planned(ProxyPlan) /\ Has(ProxyPlan, "clean") /\ ~Has(ProxyPlan, "stop")
          /\ ~Has(ProxyPlan, "flush")
      <3>1. ~Has(<<"connect", "clean", "upload", "chmod", "start", "verify">>, "stop")
        BY DEF Has
      <3> QED
        BY <1>6, <3>1, PlannedTuples DEF ProxyPlan
    <2> QED
      BY <1>8, <2>1, <2>2, <2>3 DEF PlanFits
  <1>9. CASE kind = "restart"
    <2>1. Plan("restart") = RestartPlan
      BY DEF Plan, PolicyKinds
    <2> QED
      BY <1>1, <1>9, <2>1, HarmlessTuples DEF RestartPlan
  <1>10. CASE kind = "upload"
    <2>1. Plan("upload") = IF Modal THEN ModalUploadPlan ELSE UploadPlan
      BY DEF Plan, PolicyKinds
    <2> QED
      BY <1>1, <1>10, <2>1, HarmlessTuples DEF ModalUploadPlan, UploadPlan
  <1>11. CASE kind = "build"
    <2>1. Plan("build") = DeployGotoni
      BY <1>4 DEF Plan, PolicyKinds
    <2> QED
      BY <1>1, <1>3, <1>11, <2>1
  <1>12. CASE kind = "build start"
    <2>1. Plan("build start") = SetupPlan
      BY DEF Plan, BuildPlan, SetupPlan, PolicyKinds
    <2> QED
      BY <1>5, <1>12, <2>1
  <1>13. CASE kind = "setup"
    <2>1. Plan("setup") = SetupPlan
      BY DEF Plan, PolicyKinds
    <2> QED
      BY <1>5, <1>13, <2>1
  <1>14. CASE kind = "remote-stop"
    <2>1. Plan("remote-stop") = RemoteStopPlan
      BY DEF Plan, PolicyKinds
    <2> QED
      BY <1>1, <1>14, <2>1, HarmlessTuples DEF RemoteStopPlan
  <1>15. CASE kind = "flush"
    <2>1. Plan("flush") = FlushPlan
      BY DEF Plan, PolicyKinds
    <2>2. \A x \in {"start", "verify", "stop"} : ~Has(<<"flush", "clear">>, x)
      BY DEF Has
    <2> QED
      BY <1>15, <2>1, <2>2, PlannedTuples DEF FlushPlan, PlanFits
  <1>16. CASE kind = "clear-cache"
    <2>1. Plan("clear-cache") = ClearCachePlan
      BY DEF Plan, PolicyKinds
    <2> QED
      BY <1>1, <1>16, <2>1, HarmlessTuples DEF ClearCachePlan
  <1>17. CASE kind \in {"policy gorgo", "policy least-loaded"}
    <2>1. Plan("policy gorgo") = PolicyPlan /\ Plan("policy least-loaded") = PolicyPlan
      BY DEF Plan, PolicyKinds
    <2> QED
      BY <1>1, <1>17, <2>1, HarmlessTuples DEF PolicyPlan
  <1>18. CASE kind \in {"lb start", "lb stop", "proxy start", "proxy stop"}
    <2>1. \A k \in {"lb start", "lb stop", "proxy start", "proxy stop"} :
            Plan(k) = <<"script">>
      BY DEF Plan, PolicyKinds
    <2> QED
      BY <1>1, <1>18, <2>1, HarmlessTuples
  <1> QED
    BY <1>7, <1>8, <1>9, <1>10, <1>11, <1>12, <1>13, <1>14, <1>15, <1>16, <1>17,
       <1>18 DEF Known

\* A line that is none of those that must come in some order.
Plain(x) == x \in Lines /\ x \notin Late \cup {"health"}

LEMMA PlainLines ==
  ASSUME NEW x \in {"hup", "hup task", "term proxy", "term any", "fuser", "rm"}
  PROVE  Plain(x)
  BY DEF Plain, Lines, Late, Starters

LEMMA LateLines ==
  /\ Starters \subseteq Late /\ Late \subseteq Lines
  /\ "health" \in Lines /\ "kill" \in Lines /\ "term lb" \in Lines
  /\ "health" \notin Late /\ "kill" \notin Starters /\ "term lb" \notin Starters
  <1>1. Starters \subseteq Late /\ Late \subseteq Lines
    BY DEF Lines, Late
  <1>2. "health" \in Lines /\ "kill" \in Lines /\ "term lb" \in Lines
    BY DEF Lines
  <1>3. "health" \notin Late /\ "kill" \notin Starters /\ "term lb" \notin Starters
    BY DEF Late, Starters
  <1> QED
    BY <1>1, <1>2, <1>3

\* What else is asked of a script that a step of a command starts.
Starting(s) == \E x \in Starters \cup {"health"} : Has(s, x)

Launches(s) ==
  Has(s, "nohup") \/ Has(s, "tmux") \/ Has(s, "task") \/ Has(s, "health")

ScriptFits(kind, step, s) ==
  /\ Written(s)
  /\ Starting(s) => step \in {"start", "script"}
  /\ step = "clean" /\ kind = "proxy" /\ ~Modal => Has(s, "kill")
  /\ step = "clean" /\ kind # "proxy" /\ kind # "upload" => Has(s, "term lb")
  /\ step = "stop" => Has(s, "term lb")
  /\ step = "script" /\ Launches(s) => Has(s, "term lb")
  /\ Has(s, "lb start") => kind = "lb start"
  /\ Has(s, "tmux") \/ Has(s, "task") => kind # "proxy"
  /\ Has(s, "health") => kind = "restart"

LEMMA HasNone ==
  ASSUME NEW X, NEW a, NEW b, NEW d, NEW e,
         a \notin X, b \notin X, d \notin X, e \notin X
  PROVE  \A x \in X : /\ ~Has(<<a>>, x) /\ ~Has(<<a, b>>, x)
                      /\ ~Has(<<a, b, d>>, x) /\ ~Has(<<a, b, d, e>>, x)
  <1>1. \A x \in X : ~Has(<<a>>, x) /\ ~Has(<<a, b>>, x)
    BY DEF Has
  <1>2. \A x \in X : ~Has(<<a, b, d>>, x)
    BY DEF Has
  <1>3. \A x \in X : ~Has(<<a, b, d, e>>, x)
    BY DEF Has
  <1> QED
    BY <1>1, <1>2, <1>3

LEMMA HasSecond ==
  ASSUME NEW a, NEW b, NEW d, NEW e
  PROVE  Has(<<a, b>>, b) /\ Has(<<a, b, d>>, b) /\ Has(<<a, b, d, e>>, b)
  <1>1. Has(<<a, b>>, b)
    BY DEF Has
  <1>2. Has(<<a, b, d>>, b)
    BY DEF Has
  <1>3. Has(<<a, b, d, e>>, b)
    BY DEF Has
  <1> QED
    BY <1>1, <1>2, <1>3

LEMMA CleanupFits ==
  ASSUME NEW kind \in Known PROVE ScriptFits(kind, "clean", Cleanup(kind))
  <1> DEFINE s == Cleanup(kind)
             X == Starters \cup {"health"}
             Y == {"hup", "hup task", "term lb", "term proxy", "term any", "kill",
                   "fuser", "rm"}
  <1>1. Written(s)
    BY PlainLines, LateLines, WrittenTuples DEF Plain, Cleanup, DeployCleanup,
       UploadCleanup, ModalUploadCleanup, ClusterCleanup, ProxyCleanup,
       ModalProxyCleanup
  <1>2. s \in {<<"hup", "term lb", "rm">>, <<"hup task", "term lb", "rm">>,
               <<"term any">>, <<"hup", "kill", "fuser", "rm">>, <<"term proxy">>}
    BY DEF Cleanup, DeployCleanup, UploadCleanup, ModalUploadCleanup,
       ClusterCleanup, ProxyCleanup, ModalProxyCleanup
  <1>3. \A x \in Y : x \notin X
    BY DEF Starters
  <1>4. ~Starting(s)
    <2>1. \A x \in X : ~Has(s, x)
      <3> HIDE DEF s, X
      <3>1. \A x \in X : ~Has(<<"term any">>, x) /\ ~Has(<<"term proxy">>, x)
        BY <1>3, HasNone, Zenon
      <3>2. \A x \in X : /\ ~Has(<<"hup", "term lb", "rm">>, x)
                         /\ ~Has(<<"hup task", "term lb", "rm">>, x)
        BY <1>3, HasNone, Zenon
      <3>3. \A x \in X : ~Has(<<"hup", "kill", "fuser", "rm">>, x)
        BY <1>3, HasNone, Zenon
      <3> QED
        BY <1>2, <3>1, <3>2, <3>3, Zenon
    <2> QED
      BY <2>1 DEF Starting
  <1>5. kind = "proxy" /\ ~Modal => Has(s, "kill")
    BY DEF Has, Cleanup, ProxyCleanup
  <1>6. kind # "proxy" /\ kind # "upload" => Has(s, "term lb")
    <2>1. Has(DeployCleanup, "term lb")
      BY HasSecond, Zenon DEF DeployCleanup
    <2>2. Has(ClusterCleanup, "term lb")
      BY HasSecond, Zenon DEF ClusterCleanup
    <2>3. kind # "proxy" /\ kind # "upload" => s \in {DeployCleanup, ClusterCleanup}
      BY DEF Cleanup
    <2> QED
      BY <2>1, <2>2, <2>3
  <1>7. /\ ~Has(s, "lb start") /\ ~Has(s, "tmux") /\ ~Has(s, "task")
        /\ ~Has(s, "health")
    BY <1>4 DEF Starting, Starters
  <1>8. "clean" # "stop" /\ "clean" # "script"
    OBVIOUS
  <1> QED
    BY <1>1, <1>4, <1>5, <1>6, <1>7, <1>8, Zenon DEF ScriptFits

LEMMA ScriptFacts ==
  ASSUME NEW kind \in Known, NEW step \in Scripted
  PROVE  ScriptFits(kind, step, Script(kind, step))
  <1>1. CASE step = "clean"
    <2>1. Script(kind, "clean") = Cleanup(kind)
      BY DEF Script
    <2> QED
      BY <1>1, <2>1, CleanupFits
  <1>2. CASE step = "stop"
    <2>1. Script(kind, "stop") = <<"hup", "term lb">>
      BY DEF Script, StopScript
    <2>2. Written(<<"hup", "term lb">>)
      BY PlainLines, LateLines, WrittenTuples DEF Plain
    <2>3. Has(<<"hup", "term lb">>, "term lb")
      BY HasSecond, Zenon
    <2>4. \A x \in Starters \cup {"health"} : ~Has(<<"hup", "term lb">>, x)
      <3>1. "hup" \notin Starters \cup {"health"} /\ "term lb" \notin Starters \cup {"health"}
        BY DEF Starters
      <3> QED
        BY <3>1, HasNone
    <2>5. ~Starting(<<"hup", "term lb">>)
      BY <2>4 DEF Starting
    <2>6. \A x \in {"lb start", "tmux", "task", "health"} :
            ~Has(<<"hup", "term lb">>, x)
      BY <2>4 DEF Starters
    <2> QED
      BY <1>2, <2>1, <2>2, <2>3, <2>5, <2>6 DEF ScriptFits
  <1>3. CASE step = "start"
    <2>1. Script(kind, "start") = IF kind = "deploy" THEN <<"tmux">>
                                  ELSE IF kind = "proxy" THEN <<"nohup">>
                                  ELSE <<"hup task", "task">>
      BY DEF Script, TaskScript
    <2>2. /\ Written(<<"tmux">>) /\ Written(<<"nohup">>)
          /\ Written(<<"hup task", "task">>)
      <3>1. "tmux" \in Lines /\ "nohup" \in Lines /\ "task" \in Lines
        BY DEF Lines, Starters
      <3> QED
        BY <3>1, PlainLines, LateLines, WrittenTuples DEF Plain
    <2>3. \A x \in {"lb start", "health"} :
            ~Has(<<"tmux">>, x) /\ ~Has(<<"nohup">>, x) /\ ~Has(<<"hup task", "task">>, x)
      <3>1. /\ "tmux" \notin {"lb start", "health"} /\ "nohup" \notin {"lb start", "health"}
            /\ "hup task" \notin {"lb start", "health"}
            /\ "task" \notin {"lb start", "health"}
        OBVIOUS
      <3> QED
        BY <3>1, HasNone, Zenon
    <2>4. ~Has(<<"nohup">>, "tmux") /\ ~Has(<<"nohup">>, "task")
      BY DEF Has
    <2> QED
      BY <1>3, <2>1, <2>2, <2>3, <2>4 DEF ScriptFits
  <1>4. CASE step = "script" /\ kind = "restart"
    <2>1. Script("restart", "script") = <<"hup", "term lb", "nohup", "health">>
      BY DEF Script, RestartScript
    <2>2. Written(<<"hup", "term lb", "nohup", "health">>)
      <3>1. "nohup" \in Lines /\ "health" # "term lb"
        BY DEF Lines, Starters
      <3> QED
        BY <3>1, PlainLines, LateLines, WrittenTuples DEF Plain
    <2>3. Has(<<"hup", "term lb", "nohup", "health">>, "term lb")
      BY HasSecond, Zenon
    <2>4. \A x \in {"lb start", "tmux", "task"} :
            ~Has(<<"hup", "term lb", "nohup", "health">>, x)
      <3>1. \A y \in {"hup", "term lb", "nohup", "health"} :
              y \notin {"lb start", "tmux", "task"}
        OBVIOUS
      <3> QED
        BY <3>1, HasNone, Zenon
    <2> QED
      BY <1>4, <2>1, <2>2, <2>3, <2>4 DEF ScriptFits
  <1>5. CASE step = "script" /\ kind # "restart"
    <2>1. Script(kind, "script") = <<kind>>
      BY <1>5 DEF Script
    <2>2. Written(<<kind>>)
      BY PlainLines, LateLines, WrittenTuples DEF Plain, Lines
    <2>3. \A x : Has(<<kind>>, x) => x = kind
      BY DEF Has
    <2>4. /\ kind # "nohup" /\ kind # "tmux" /\ kind # "task"
          /\ kind # "health"
      BY DEF Known
    <2> QED
      BY <1>5, <2>1, <2>2, <2>3, <2>4 DEF ScriptFits, Launches
  <1> QED
    BY <1>1, <1>2, <1>3, <1>4, <1>5 DEF Scripted

-----------------------------------------------------------------------------
(* One command at one node *)

\* Kind k has the steps l left and its script goes on with s.  It has still to
\* start a process:
Spawns(l, s) ==
  Has(l, "start") \/ Has(l, "script") \/ \E x \in Starters : Has(s, x)

\* The old processes have been ended, and a new one is started or waited for.
Ready(k, l, s) ==
  IF k = "proxy"
  THEN Has(l, "verify") /\ ~Has(l, "clean") /\ ~Has(s, "kill")
  ELSE /\ Has(l, "start") \/ Launches(s)
       /\ ~Has(l, "clean") /\ ~Has(l, "stop") /\ ~Has(s, "term lb")

Cleared(l) == ~Has(l, "start") /\ ~Has(l, "script") /\ ~Has(l, "clean")
              /\ ~Has(l, "stop")

Fits(k, l, s) ==
  /\ Planned(l) /\ Written(s)
  /\ Has(l, "start") /\ k # "proxy" => k # "upload"
  /\ Has(l, "verify") => k # "restart" /\ (k = "proxy" => ~Modal)
  /\ Has(l, "stop") => k # "proxy"
  /\ Has(l, "flush") => k = "flush"
  /\ Starting(s) => Cleared(l)
  /\ Has(s, "lb start") => k = "lb start"
  /\ Has(s, "tmux") \/ Has(s, "task") => k # "proxy"
  /\ Has(s, "health") => k = "restart"

\* l has no more to do than m.
Fewer(l, m) ==
  /\ Has(l, "start") => Has(m, "start")
  /\ Has(l, "script") => Has(m, "script")
  /\ Has(l, "clean") => Has(m, "clean")
  /\ Has(l, "stop") => Has(m, "stop")
  /\ Has(l, "verify") => Has(m, "verify")
  /\ Has(l, "flush") => Has(m, "flush")

\* It has forgotten no cleanup, unless there is nothing left to start.
Heeds(l, m) ==
  \/ ~Has(l, "start") /\ ~Has(l, "verify")
  \/ /\ Has(m, "clean") => Has(l, "clean")
     /\ Has(m, "stop") => Has(l, "stop")

LEMMA LaunchesStart ==
  ASSUME NEW s, Launches(s) PROVE Starting(s)
  BY DEF Launches, Starting, Starters

LEMMA FitsFewer ==
  ASSUME NEW k, NEW l, NEW s, NEW m, NEW u, Fits(k, m, u), Planned(l), Written(s),
         Fewer(l, m), \A x : Has(s, x) => Has(u, x)
  PROVE  Fits(k, l, s) /\ (Spawns(l, s) => Spawns(m, u))
  <1>1. Starting(s) => Starting(u)
    BY Zenon DEF Starting
  <1>2. Cleared(m) => Cleared(l)
    BY Zenon DEF Cleared, Fewer
  <1>3. Spawns(l, s) => Spawns(m, u)
    BY Zenon DEF Spawns, Fewer
  <1> QED
    BY <1>1, <1>2, <1>3, Zenon DEF Fits, Fewer

\* Steps other than those that run scripts.
LEMMA ReadyStep ==
  ASSUME NEW k, NEW l, NEW s, NEW m, Fits(k, m, s), Fewer(l, m), Heeds(l, m),
         Ready(k, l, s)
  PROVE  Ready(k, m, s)
  <1>1. CASE k = "proxy"
    <2>1. Has(m, "verify") /\ Has(l, "verify") /\ ~Has(l, "clean") /\ ~Has(s, "kill")
      BY <1>1, Zenon DEF Ready, Fewer
    <2>2. ~Has(m, "clean")
      BY <2>1, Zenon DEF Heeds
    <2> QED
      BY <1>1, <2>1, <2>2, Zenon DEF Ready
  <1>2. CASE k # "proxy"
    <2>1. /\ Has(l, "start") \/ Launches(s)
          /\ ~Has(l, "clean") /\ ~Has(l, "stop") /\ ~Has(s, "term lb")
      BY <1>2, Zenon DEF Ready
    <2>2. CASE Launches(s)
      <3>1. Cleared(m)
        BY <2>2, LaunchesStart, Zenon DEF Fits
      <3> QED
        BY <1>2, <2>1, <2>2, <3>1, Zenon DEF Ready, Cleared
    <2>3. CASE Has(l, "start")
      <3>1. ~Has(m, "clean") /\ ~Has(m, "stop") /\ Has(m, "start")
        BY <2>1, <2>3, Zenon DEF Heeds, Fewer
      <3> QED
        BY <1>2, <2>1, <3>1, Zenon DEF Ready
    <2> QED
      BY <2>1, <2>2, <2>3
  <1> QED
    BY <1>1, <1>2

\* A script is begun.
LEMMA ReadyScript ==
  ASSUME NEW k \in Known, NEW m, Fits(k, m, <<>>), m # <<>>,
         NEW step \in Scripted, Head(m) = step
  PROVE  LET l == <<"wait">> \o Tail(m)
             s == Script(k, step)
         IN  /\ Fits(k, l, s) /\ (Spawns(l, s) => Spawns(m, <<>>))
             /\ Ready(k, l, s) => Ready(k, m, <<>>)
  <1> DEFINE l == <<"wait">> \o Tail(m)
             s == Script(k, step)
  <1>1. m \in Seq(Steps) /\ Planned(m)
    BY DEF Fits, Planned
  <1>2. /\ Tail(m) \in Seq(Steps) /\ Has(m, step)
        /\ \A x : Has(Tail(m), x) => Has(m, x)
        /\ \A x : Has(m, x) /\ x # step => Has(Tail(m), x)
    BY <1>1, HasInTail
  <1>3. /\ Planned(Tail(m))
        /\ step = "script" => Tail(m) = <<>>
        /\ step = "start" => /\ ~Has(Tail(m), "start") /\ ~Has(Tail(m), "clean")
                             /\ ~Has(Tail(m), "stop")
        /\ step \notin {"connect", "script"} => ~Has(m, "script")
    BY <1>1, PlannedTail
  <1>4. \A x : ~Has(<<>>, x)
    BY DEF Has
  <1>5. ~Has(Tail(m), "script")
    BY <1>2, <1>3, <1>4 DEF Scripted
  <1>6. \A x : Has(l, x) <=> x = "wait" \/ Has(Tail(m), x)
    <2>1. "wait" \in Steps
      BY DEF Steps
    <2> QED
      BY <1>2, <2>1, HasAfter
  <1>7. Planned(l)
    BY <1>3, <1>5, PlannedAfter
  <1>8. ScriptFits(k, step, s)
    BY ScriptFacts
  <1> HIDE DEF l, s
  <1>9. Fewer(l, m)
    BY <1>2, <1>6 DEF Fewer
  <1>10. Starting(s) => Cleared(l)
    <2>1. Starting(s) => step \in {"start", "script"}
      BY <1>8, Zenon DEF ScriptFits
    <2>2. ~Has(l, "script")
      BY <1>5, <1>6
    <2>3. step = "start" \/ step = "script" =>
            ~Has(l, "start") /\ ~Has(l, "clean") /\ ~Has(l, "stop")
      BY <1>3, <1>4, <1>6
    <2> QED
      BY <2>1, <2>2, <2>3 DEF Cleared
  <1>11. Fits(k, l, s)
    BY <1>7, <1>8, <1>9, <1>10, Zenon DEF Fits, ScriptFits, Fewer
  <1>12. Spawns(l, s) => Spawns(m, <<>>)
    <2>1. (\E x \in Starters : Has(s, x)) => Has(m, "start") \/ Has(m, "script")
      <3>1. (\E x \in Starters : Has(s, x)) => step \in {"start", "script"}
        BY <1>8, Zenon DEF ScriptFits, Starting
      <3> QED
        BY <1>2, <3>1
    <2> QED
      BY <1>9, <2>1, Zenon DEF Spawns, Fewer
  <1>13. ASSUME Ready(k, l, s) PROVE Ready(k, m, <<>>)
    <2>1. CASE k = "proxy"
      <3>1. Has(l, "verify") /\ ~Has(l, "clean") /\ ~Has(s, "kill")
        BY <1>13, <2>1, Zenon DEF Ready
      <3>2. Has(m, "verify")
        BY <1>9, <3>1, Zenon DEF Fewer
      <3>3. ~Modal
        BY <2>1, <3>2, Zenon DEF Fits
      <3>4. step # "clean"
        BY <1>8, <2>1, <3>1, <3>3, Zenon DEF ScriptFits
      <3>5. ~Has(m, "clean")
        BY <1>2, <1>6, <3>1, <3>4
      <3> QED
        BY <1>4, <2>1, <3>2, <3>5, Zenon DEF Ready
    <2>2. CASE k # "proxy"
      <3>1. /\ Has(l, "start") \/ Launches(s)
            /\ ~Has(l, "clean") /\ ~Has(l, "stop") /\ ~Has(s, "term lb")
        BY <1>13, <2>2, Zenon DEF Ready
      <3>2. step # "stop"
        BY <1>8, <3>1, Zenon DEF ScriptFits
      <3>3. Launches(s) => step = "start"
        BY <1>8, <3>1, LaunchesStart DEF ScriptFits
      <3>4. Has(m, "start")
        BY <1>2, <1>9, <3>1, <3>3, Zenon DEF Fewer
      <3>5. step # "clean"
        BY <1>8, <2>2, <3>1, <3>4, Zenon DEF ScriptFits, Fits
      <3>6. ~Has(m, "clean") /\ ~Has(m, "stop")
        BY <1>2, <1>6, <3>1, <3>2, <3>5
      <3> QED
        BY <1>4, <2>2, <3>4, <3>6, Zenon DEF Ready
    <2> QED
      BY <2>1, <2>2
  <1> QED
    BY <1>11, <1>12, <1>13 DEF l, s

\* A step that leads from m and u to l and s.
Goes(k, m, u, l, s) ==
  /\ Fits(k, l, s)
  /\ Spawns(l, s) => Spawns(m, u)
  /\ Ready(k, l, s) => Ready(k, m, u)

LEMMA GoesOn ==
  ASSUME NEW k, NEW m, NEW s, Fits(k, m, s) PROVE Goes(k, m, s, m, s)
  BY DEF Goes

LEMMA GoesBy ==
  ASSUME NEW k, NEW m, NEW s, Fits(k, m, s),
         NEW l, Planned(l), Fewer(l, m), Heeds(l, m)
  PROVE  Goes(k, m, s, l, s)
  <1>1. Written(s)
    BY DEF Fits
  <1> QED
    BY <1>1, FitsFewer, ReadyStep, Zenon DEF Goes

LEMMA GoesThrough ==
  ASSUME NEW k, NEW m, NEW s, Fits(k, m, s), m # <<>>, Head(m) \notin Scripted
  PROVE  Goes(k, m, s, Tail(m), s)
  <1> DEFINE l == Tail(m)
  <1>1. m \in Seq(Steps) /\ Planned(m)
    BY DEF Fits, Planned
  <1>2. /\ \A x : Has(l, x) => Has(m, x)
        /\ \A x : Has(m, x) /\ x # Head(m) => Has(l, x)
    BY <1>1, HasInTail
  <1>3. Planned(l)
    BY <1>1, PlannedTail
  <1> HIDE DEF l
  <1>4. Fewer(l, m)
    BY <1>2 DEF Fewer
  <1>5. Heeds(l, m)
    BY <1>2 DEF Heeds, Scripted
  <1> QED
    BY <1>3, <1>4, <1>5, GoesBy DEF l

\* A node is given up, all or but for the files it gets.
LEMMA GoesNowhere ==
  ASSUME NEW k, NEW m, NEW s, Fits(k, m, s),
         NEW l \in {<<>>, <<"upload", "chmod">>}
  PROVE  Goes(k, m, s, l, s)
  <1>1. Planned(l)
    BY PlannedTuples
  <1>2. \A x \in {"start", "script", "clean", "stop", "verify", "flush"} :
          ~Has(l, x)
    BY DEF Has
  <1>3. Fewer(l, m) /\ Heeds(l, m)
    BY <1>2 DEF Fewer, Heeds
  <1> QED
    BY <1>1, <1>3, GoesBy

\* The connection is lost, and with it what the script was still to do.
LEMMA GoesSilent ==
  ASSUME NEW k, NEW m, NEW s, Fits(k, m, s) PROVE Goes(k, m, s, <<>>, <<>>)
  <1>1. Goes(k, m, s, <<>>, s)
    BY GoesNowhere
  <1>2. \A x : ~Has(<<>>, x)
    BY DEF Has
  <1>3. Written(<<>>)
    BY DEF Written
  <1>4. ~Spawns(<<>>, <<>>)
    BY <1>2 DEF Spawns
  <1>5. ~Ready(k, <<>>, <<>>)
    BY <1>2 DEF Ready, Launches
  <1>6. Fits(k, <<>>, <<>>)
    BY <1>1, <1>2, <1>3, FitsFewer DEF Goes, Fits, Fewer
  <1> QED
    BY <1>4, <1>5, <1>6 DEF Goes

\* An upload fails: what follows it is only the chmod.
LEMMA GoesFailed ==
  ASSUME NEW k, NEW m, NEW s, Fits(k, m, s), m # <<>>, Head(m) = "upload"
  PROVE  /\ Goes(k, m, s, Tail(Tail(m)), s)
         /\ Goes(k, m, s, <<"failed">> \o Tail(Tail(m)), s)
  <1> DEFINE t == Tail(m)
             l == Tail(t)
             f == <<"failed">> \o l
  <1>1. m \in Seq(Steps) /\ Planned(m)
    BY DEF Fits, Planned
  <1>2. /\ t \in Seq(Steps) /\ \A x : Has(t, x) => Has(m, x)
        /\ \A x : Has(m, x) /\ x # "upload" => Has(t, x)
    BY <1>1, HasInTail
  <1>3. /\ Planned(t) /\ t # <<>> /\ Head(t) = "chmod" /\ ~Has(m, "script")
    BY <1>1, PlannedTail
  <1> HIDE DEF t
  <1>4. /\ l \in Seq(Steps) /\ \A x : Has(l, x) => Has(t, x)
        /\ \A x : Has(t, x) /\ x # "chmod" => Has(l, x)
    BY <1>2, <1>3, HasInTail
  <1>5. Planned(l) /\ ~Has(l, "script")
    BY <1>2, <1>3, <1>4, PlannedTail
  <1> HIDE DEF l
  <1>6. \A x : Has(f, x) <=> x = "failed" \/ Has(l, x)
    <2>1. "failed" \in Steps
      BY DEF Steps
    <2> QED
      BY <1>4, <2>1, HasAfter
  <1>7. Planned(f)
    BY <1>5, PlannedAfter
  <1> HIDE DEF f
  <1>8. Fewer(l, m) /\ Fewer(f, m)
    BY <1>2, <1>4, <1>6 DEF Fewer
  <1>9. Heeds(l, m) /\ Heeds(f, m)
    BY <1>2, <1>4, <1>6 DEF Heeds
  <1>10. Goes(k, m, s, l, s) /\ Goes(k, m, s, f, s)
    BY <1>5, <1>7, <1>8, <1>9, GoesBy
  <1> QED
    BY <1>10 DEF f, l, t

LEMMA GoesScript ==
  ASSUME NEW k \in Known, NEW m, Fits(k, m, <<>>), m # <<>>,
         NEW step \in Scripted, Head(m) = step
  PROVE  Goes(k, m, <<>>, <<"wait">> \o Tail(m), Script(k, step))
  BY ReadyScript DEF Goes

\* A line of a script is carried out.
LEMMA LineStep ==
  ASSUME NEW k, NEW l, NEW s, Fits(k, l, s), s # <<>>
  PROVE  /\ Fits(k, l, Tail(s)) /\ (Spawns(l, Tail(s)) => Spawns(l, s))
         /\ Head(s) \in Starters => Spawns(l, s)
         /\ Head(s) \in Starters \cup {"health"} => ~Spawns(l, Tail(s))
         /\ Ready(k, l, Tail(s)) /\ Head(s) # (IF k = "proxy" THEN "kill" ELSE "term lb")
              => Ready(k, l, s)
         /\ Head(s) \in {"nohup", "tmux", "task", "health"} /\ k # "proxy"
              => Ready(k, l, s)
  <1> DEFINE u == Tail(s)
  <1>1. s \in Seq(Lines) /\ Written(s) /\ Planned(l)
    BY DEF Fits, Written
  <1>2. /\ Has(s, Head(s)) /\ \A x : Has(u, x) => Has(s, x)
        /\ \A x : Has(s, x) /\ x # Head(s) => Has(u, x)
    BY <1>1, HasInTail
  <1>3. /\ Written(u)
        /\ Head(s) \in Starters \cup {"health"} => \A x \in Late : ~Has(u, x)
    BY <1>1, WrittenTail
  <1> HIDE DEF u
  <1>4. Fits(k, l, u) /\ (Spawns(l, u) => Spawns(l, s))
    BY <1>1, <1>2, <1>3, FitsFewer DEF Fewer
  <1>5. Head(s) \in Starters => Spawns(l, s)
    BY <1>2, Zenon DEF Spawns
  <1>6. Head(s) \in Starters \cup {"health"} => Cleared(l)
    BY <1>2, Zenon DEF Fits, Starting
  <1>7. Head(s) \in Starters \cup {"health"} => ~Spawns(l, u)
    BY <1>3, <1>6, LateLines DEF Spawns, Cleared
  <1>8. ASSUME Ready(k, l, u),
               Head(s) # (IF k = "proxy" THEN "kill" ELSE "term lb")
        PROVE  Ready(k, l, s)
    <2>1. Launches(u) => Launches(s)
      BY <1>2, Zenon DEF Launches
    <2>2. CASE k = "proxy"
      BY <1>2, <1>8, <2>2 DEF Ready
    <2>3. CASE k # "proxy"
      BY <1>2, <1>8, <2>1, <2>3 DEF Ready
    <2> QED
      BY <2>2, <2>3
  <1>9. ASSUME Head(s) \in {"nohup", "tmux", "task", "health"}, k # "proxy"
        PROVE  Ready(k, l, s)
    <2>1. Head(s) \in Starters \cup {"health"} /\ Head(s) # "term lb"
      BY <1>9 DEF Starters
    <2>2. "term lb" \in Late
      BY DEF Late
    <2>3. ~Has(s, "term lb")
      BY <1>2, <1>3, <2>1, <2>2
    <2>4. Launches(s)
      BY <1>2, <1>9 DEF Launches
    <2> QED
      BY <1>6, <1>9, <2>1, <2>3, <2>4 DEF Ready, Cleared
  <1> QED
    BY <1>4, <1>5, <1>7, <1>8, <1>9 DEF u

\* A script is broken off: there is no binary, or the session is still there.
LEMMA LineStops ==
  ASSUME NEW k, NEW l, NEW s, NEW z \in {<<>>, <<"error">>}, Fits(k, l, s), s # <<>>,
         Head(s) \in {"nohup", "tmux"}
  PROVE  Goes(k, l, s, l, z) /\ z \in Seq(Lines)
  <1>1. \A x : Has(z, x) => x = "error"
    BY DEF Has
  <1>2. s \in Seq(Lines) /\ Written(z) /\ Planned(l)
    <2>1. /\ "error" \in Lines /\ "error" \notin Late
      BY DEF Lines, Late, Starters
    <2>2. z \in Seq(Lines) /\ \A i \in 1 .. Len(z) : z[i] = "error"
      <3>1. <<"error">> \in Seq(Lines) /\ <<>> \in Seq(Lines)
        BY <2>1
      <3>2. CASE z = <<>>
        BY <3>1, <3>2
      <3>3. CASE z = <<"error">>
        BY <3>1, <3>3
      <3> QED
        BY <3>2, <3>3
    <2>3. Written(z)
      BY <2>1, <2>2 DEF Written
    <2> QED
      BY <2>3 DEF Fits, Written
  <1>3. Cleared(l)
    <2>1. Has(s, Head(s)) /\ Head(s) \in Starters
      BY <1>2, HasInTail DEF Starters
    <2> QED
      BY <2>1, Zenon DEF Fits, Starting
  <1>4. /\ ~Starting(z) /\ ~Launches(z) /\ ~Spawns(l, z)
        /\ \A x \in {"lb start", "tmux", "task", "health"} : ~Has(z, x)
    BY <1>1, <1>3 DEF Starting, Launches, Spawns, Cleared, Starters
  <1>5. Fits(k, l, z)
    BY <1>2, <1>4 DEF Fits
  <1>6. ASSUME Ready(k, l, z) PROVE Ready(k, l, s)
    <2>1. CASE k = "proxy"
      <3>1. Has(l, "verify") /\ ~Has(l, "clean")
        BY <1>6, <2>1, Zenon DEF Ready
      <3>2. ~Has(s, "kill")
        <4>1. Head(s) \in Starters /\ "kill" \in Late /\ Head(s) # "kill"
          BY DEF Starters, Late
        <4>2. Written(s)
          BY DEF Fits
        <4>3. ~Has(Tail(s), "kill")
          BY <4>1, <4>2, WrittenTail
        <4> QED
          BY <1>2, <4>1, <4>3, HasInTail
      <3> QED
        BY <2>1, <3>1, <3>2, Zenon DEF Ready
    <2>2. CASE k # "proxy"
      BY <1>3, <1>4, <1>6, <2>2 DEF Ready, Cleared
    <2> QED
      BY <2>1, <2>2
  <1> QED
    BY <1>2, <1>4, <1>5, <1>6 DEF Goes, Written

-----------------------------------------------------------------------------
(* Types *)

Live(p) == proc[p].kind = "lb" /\ proc[p].st \in {"loading", "starting", "serving"}

Process0 == [st : {"none", "loading", "starting", "serving", "stopping", "dead"},
             node : Nodes \cup {None}, kind : {"lb", "proxy", None},
             how : Hows \cup {None}, policy : {"gorgo", "least-loaded"},
             tree : SUBSET Requests]

Requests0 == [st : {"none", "sent", "cached", "done"}, lb : Pids \cup {None},
              node : Nodes \cup {None}]

NodeTyped ==
  /\ binary \in [Nodes -> {None, "partial", "noexec", "good"}]
  /\ proc \in [Pids -> Process0]
  /\ pidfile \in [Nodes -> [{"lb", "proxy"} -> Pids \cup {None}]]

CmdTyped ==
  /\ cmd \in [Commands -> Kinds \cup {None}]
  /\ left \in [Commands -> [Nodes -> Seq(Steps)]]
  /\ script \in [Commands -> [Nodes -> Seq(Lines)]]
  /\ started \in [Commands -> [Nodes -> Pids \cup {None}]]
  /\ answerer \in [Commands -> [Nodes -> Pids \cup {None}]]
  /\ failed \in [Commands -> BOOLEAN] /\ orderly \in BOOLEAN

CacheTyped ==
  /\ kv \in [Nodes -> BOOLEAN] /\ raced \subseteq Requests
  /\ request \in [Requests -> Requests0]

Typed == scene \in Scenes /\ NodeTyped /\ CmdTyped /\ CacheTyped

\* Addresses lead somewhere.
Linked ==
  /\ \A r \in Requests : request[r].st # "none" =>
       request[r].lb \in Pids /\ request[r].node \in Nodes
                              /\ proc[request[r].lb].kind = "lb"
                              /\ proc[request[r].lb].st # "none"
  /\ \A p \in Pids : proc[p].st # "none" =>
       proc[p].node \in Instances /\ proc[p].kind # None /\ proc[p].how # None
  /\ \A n \in Nodes, k \in {"lb", "proxy"} : pidfile[n][k] # None =>
       proc[pidfile[n][k]].st # "none"

OnePort ==
  \A p, q \in Pids :
    Holds(p) /\ Holds(q) /\ proc[p].node = proc[q].node => p = q

Alives == {"loading", "starting", "serving", "stopping"}

\* What becomes of a process when no process is started or comes to listen.
Ages(a, b) ==
  \/ a = b
  \/ a \in {"loading", "starting"} /\ b = "dead"
  \/ a = "starting" /\ b = "serving"
  \/ a = "serving" /\ b \in {"stopping", "dead"}
  \/ a = "stopping" /\ b = "dead"

Calm ==
  /\ pidfile' = pidfile
  /\ proc' \in [Pids -> Process0]
  /\ \A p \in Pids :
       /\ proc'[p].node = proc[p].node /\ proc'[p].kind = proc[p].kind
       /\ proc'[p].how = proc[p].how
       /\ Ages(proc[p].st, proc'[p].st)

\* and none comes to listen.
Quieter ==
  Calm /\ \A p \in Pids : proc'[p].st = "serving" => proc[p].st = "serving"

LEMMA SceneFacts ==
  ASSUME Typed
  PROVE  /\ Instances \subseteq Nodes /\ scene.requests \subseteq Requests
         /\ scene.kinds \subseteq Kinds /\ Kinds \subseteq Known /\ None \notin Pids
         /\ None \notin Known
  BY DeployAssumption DEF DeployAssumption, Typed, Instances

LEMMA PortFacts ==
  ASSUME NEW n
  PROVE  \/ Holders(n) = {} /\ PortHolder(n) = None
         \/ PortHolder(n) \in Pids /\ PortHolder(n) \in Holders(n)
  BY DEF PortHolder, Holders

\* x goes on as y.
Becomes(x, y) ==
  /\ y \in Process0
  /\ y.node = x.node /\ y.kind = x.kind /\ y.how = x.how /\ Ages(x.st, y.st)
  /\ y.st = "serving" => x.st = "serving"

LEMMA BecomesDead ==
  ASSUME NEW x \in Process0
  PROVE  /\ Becomes(x, x)
         /\ x.st \in Alives => Becomes(x, [x EXCEPT !.st = "dead"])
         /\ x.st = "serving" => Becomes(x, [x EXCEPT !.st = "stopping"])
  <1>1. Becomes(x, x)
    BY DEF Becomes, Process0, Ages
  <1>2. x.st \in Alives => Becomes(x, [x EXCEPT !.st = "dead"])
    BY DEF Becomes, Process0, Ages, Alives
  <1>3. x.st = "serving" => Becomes(x, [x EXCEPT !.st = "stopping"])
    BY DEF Becomes, Process0, Ages
  <1> QED
    BY <1>1, <1>2, <1>3

LEMMA BecomesOther ==
  ASSUME NEW x \in Process0, NEW t \in SUBSET Requests,
         NEW pol \in {"gorgo", "least-loaded"}
  PROVE  /\ Becomes(x, [x EXCEPT !.tree = t, !.policy = pol])
         /\ Becomes(x, [x EXCEPT !.tree = t])
  <1>1. Becomes(x, [x EXCEPT !.tree = t, !.policy = pol])
    BY DEF Becomes, Process0, Ages
  <1>2. Becomes(x, [x EXCEPT !.tree = t])
    BY DEF Becomes, Process0, Ages
  <1> QED
    BY <1>1, <1>2

LEMMA AllQuieter ==
  ASSUME pidfile' = pidfile, DOMAIN proc' = Pids,
         proc' = [p \in Pids |-> proc'[p]],
         \A p \in Pids : Becomes(proc[p], proc'[p])
  PROVE  Quieter
  BY DEF Quieter, Calm, Becomes

LEMMA KilledQuieter ==
  ASSUME Typed, NEW ps, \A p \in ps \cap Pids : Alive(p), proc' = Killed(ps),
         pidfile' = pidfile
  PROVE  Quieter
  <1>1. \A p \in Pids : proc[p] \in Process0
    BY DEF Typed, NodeTyped
  <1>2. /\ DOMAIN proc' = Pids /\ proc' = [p \in Pids |-> proc'[p]]
        /\ \A p \in Pids : proc'[p] = IF p \in ps THEN [proc[p] EXCEPT !.st = "dead"]
                                      ELSE proc[p]
    BY DEF Killed
  <1>3. \A p \in ps \cap Pids : proc[p].st \in Alives
    BY DEF Alive, Alives
  <1>4. \A p \in Pids : Becomes(proc[p], proc'[p])
    <2> TAKE p \in Pids
    <2>1. CASE p \in ps
      BY <1>1, <1>2, <1>3, <2>1, BecomesDead
    <2>2. CASE p \notin ps
      BY <1>1, <1>2, <2>2, BecomesDead
    <2> QED
      BY <2>1, <2>2
  <1> QED
    BY <1>2, <1>4, AllQuieter

LEMMA TerminatedQuieter ==
  ASSUME Typed, NEW ps, proc' = Terminated(ps), pidfile' = pidfile
  PROVE  Quieter
  <1>1. \A p \in Pids : proc[p] \in Process0
    BY DEF Typed, NodeTyped
  <1>2. /\ DOMAIN proc' = Pids /\ proc' = [p \in Pids |-> proc'[p]]
        /\ \A p \in Pids :
             proc'[p] = IF p \in ps /\ proc[p].st \in {"loading", "starting"}
                        THEN [proc[p] EXCEPT !.st = "dead"]
                        ELSE IF p \in ps /\ proc[p].st = "serving"
                        THEN [proc[p] EXCEPT !.st = "stopping"] ELSE proc[p]
    BY DEF Terminated
  <1>3. \A p \in Pids : Becomes(proc[p], proc'[p])
    <2> TAKE p \in Pids
    <2>1. proc[p].st \in {"loading", "starting"} => proc[p].st \in Alives
      BY DEF Alives
    <2> QED
      BY <1>1, <1>2, <2>1, BecomesDead
  <1> QED
    BY <1>2, <1>3, AllQuieter

LEMMA SameQuieter ==
  ASSUME Typed, UNCHANGED <<proc, pidfile>> PROVE Quieter
  <1>1. \A p \in Pids : proc[p] \in Process0
    BY DEF Typed, NodeTyped
  <1>2. DOMAIN proc' = Pids /\ proc' = [p \in Pids |-> proc'[p]]
    BY DEF Typed, NodeTyped
  <1>3. \A p \in Pids : Becomes(proc[p], proc'[p])
    BY <1>1, BecomesDead
  <1> QED
    BY <1>2, <1>3, AllQuieter

LEMMA ChangedQuieter ==
  ASSUME Typed, NEW p \in Pids, NEW y, Becomes(proc[p], y),
         proc' = [proc EXCEPT ![p] = y], pidfile' = pidfile
  PROVE  Quieter
  <1>1. \A q \in Pids : proc[q] \in Process0
    BY DEF Typed, NodeTyped
  <1>2. /\ DOMAIN proc' = Pids /\ proc' = [q \in Pids |-> proc'[q]]
        /\ \A q \in Pids : proc'[q] = IF q = p THEN y ELSE proc[q]
    BY DEF Typed, NodeTyped
  <1>3. \A q \in Pids : Becomes(proc[q], proc'[q])
    BY <1>1, <1>2, BecomesDead
  <1> QED
    BY <1>2, <1>3, AllQuieter

LEMMA TypedTypes == Typed => TypeOK
  BY DEF Typed, NodeTyped, CmdTyped, CacheTyped, TypeOK, Process0

LEMMA SameNode ==
  ASSUME NodeTyped, UNCHANGED nodeVars PROVE NodeTyped'
  BY DEF NodeTyped, nodeVars, Process0

LEMMA SameCommands ==
  ASSUME CmdTyped, UNCHANGED commandVars PROVE CmdTyped'
  BY DEF CmdTyped, commandVars

LEMMA SameCaches ==
  ASSUME CacheTyped, UNCHANGED cacheVars PROVE CacheTyped'
  BY DEF CacheTyped, cacheVars, Requests0

\* A process starts to load.
Born(n, kind, how, p) ==
  /\ p \in FreePid
  /\ proc' = [proc EXCEPT ![p] = Process(n, kind, how)]

LEMMA BornFacts ==
  ASSUME Typed, NEW n \in Nodes, NEW kind \in {"lb", "proxy"}, NEW how \in Hows,
         NEW p, Born(n, kind, how, p)
  PROVE  /\ p \in Pids /\ proc[p].st = "none" /\ proc' \in [Pids -> Process0]
         /\ proc'[p].st = "loading" /\ proc'[p].node = n /\ proc'[p].kind = kind
         /\ proc'[p].how = how /\ proc'[p].tree = {}
         /\ \A q \in Pids : q # p => proc'[q] = proc[q]
  <1>1. Process(n, kind, how) \in Process0
    BY DEF Process, NoProcess, Process0
  <1>2. /\ Process(n, kind, how).st = "loading" /\ Process(n, kind, how).node = n
        /\ Process(n, kind, how).kind = kind /\ Process(n, kind, how).how = how
        /\ Process(n, kind, how).tree = {}
    BY DEF Process, NoProcess
  <1>3. p \in Pids /\ proc[p].st = "none"
    BY DEF Born, FreePid
  <1>4. proc \in [Pids -> Process0]
    BY DEF Typed, NodeTyped
  <1>5. proc' = [proc EXCEPT ![p] = Process(n, kind, how)]
    BY DEF Born
  <1> QED
    BY <1>1, <1>2, <1>3, <1>4, <1>5

-----------------------------------------------------------------------------
(* The invariant *)

\* p is one of those a command has to end at n.
Old(c, n, p) ==
  /\ proc[p].node = n
  /\ IF cmd[c] = "proxy" THEN Alive(p) ELSE Live(p)

Busy(c, n) == left[c][n] # <<>> \/ script[c][n] # <<>>

ToSpawn(c, n) == Spawns(left[c][n], script[c][n])

IsReady(c, n) == Ready(cmd[c], left[c][n], script[c][n])

AllFit ==
  \A c \in Commands, n \in Nodes :
    /\ Fits(cmd[c], left[c][n], script[c][n])
    /\ ToSpawn(c, n) => started[c][n] = None
    /\ Busy(c, n) => n \in Instances
    /\ cmd[c] = None => /\ ~Busy(c, n) /\ started[c][n] = None
                        /\ answerer[c][n] = None

\* As long as nobody gives a command before the last one is done:
OneAtATime ==
  \A b, c \in Commands, m, n \in Nodes : Busy(b, m) /\ Busy(c, n) => b = c

InHand(c, n) ==
  left[c][n] # <<>> /\ script[c][n] # <<>> => Head(left[c][n]) = "wait"

\* What is not its own has been ended before a command starts a process, and
\* nothing loads where somebody starts a load balancer by hand.
OldOnesEnded(c, n) ==
  /\ IsReady(c, n) => \A p \in Pids : Old(c, n, p) => p = started[c][n]
  /\ cmd[c] = "lb start" /\ ToSpawn(c, n) =>
       \A p \in Pids : proc[p].node = n /\ proc[p].kind = "lb" =>
         proc[p].st # "loading"

Told(c, n) ==
  cmd[c] \in {"restart", "proxy"} =>
    /\ ToSpawn(c, n) => answerer[c][n] = None
    /\ answerer[c][n] \in {None, started[c][n]}

\* A load balancer that loads beside another was started by hand.
Rivals ==
  \A p, q \in Pids :
    (/\ Live(p) /\ Live(q) /\ proc[q].st = "loading" /\ p # q
     /\ proc[p].node = proc[q].node) => proc[q].how = "hand"

InFile(p) ==
  LET q == pidfile[proc[p].node]["lb"]
  IN  q = p \/ (q # None /\ proc[q].how = "hand")

Filed ==
  \A p \in Pids :
    proc[p].kind = "lb" /\ proc[p].st \in {"starting", "serving"} => InFile(p)

Ordered ==
  /\ OneAtATime /\ Rivals /\ Filed
  /\ \A c \in Commands, n \in Nodes :
       InHand(c, n) /\ OldOnesEnded(c, n) /\ Told(c, n)

Inv == Typed /\ Linked /\ OnePort /\ AllFit /\ (orderly => Ordered)

-----------------------------------------------------------------------------
(* Steps that start no process *)

\* What becomes of command c at node n.
Moves(c, n) ==
  /\ Fits(cmd[c], left'[c][n], script'[c][n])
  /\ ToSpawn(c, n)' => ToSpawn(c, n)
  /\ Busy(c, n)' => Busy(c, n)
  /\ orderly' => /\ InHand(c, n)'
                 /\ IsReady(c, n)' =>
                      IsReady(c, n) \/ \A p \in Pids : ~Old(c, n, p)'

Answers(c, n) ==
  \/ answerer'[c][n] = answerer[c][n]
  \/ /\ Busy(c, n)
     /\ orderly' /\ cmd[c] \in {"restart", "proxy"} =>
          ~ToSpawn(c, n)' /\ answerer'[c][n] \in {None, started[c][n]}

Tame ==
  /\ Calm /\ NodeTyped' /\ CmdTyped'
  /\ UNCHANGED <<scene, cmd, started>>
  /\ orderly' => orderly
  /\ \A c \in Commands, n \in Nodes : Moves(c, n) /\ Answers(c, n)

LEMMA CalmFacts ==
  ASSUME Calm, NEW p \in Pids
  PROVE  /\ proc'[p].node = proc[p].node /\ proc'[p].kind = proc[p].kind
         /\ proc'[p].how = proc[p].how
         /\ Alive(p)' => Alive(p)
         /\ Live(p)' => Live(p)
         /\ proc'[p].st = "loading" => proc[p].st = "loading"
         /\ proc'[p].st \in {"starting", "serving"} =>
              proc[p].st \in {"starting", "serving"}
         /\ proc'[p].st = "none" <=> proc[p].st = "none"
         /\ proc'[p].st = "stopping" => proc[p].st \in {"serving", "stopping"}
  <1>1. /\ proc'[p].node = proc[p].node /\ proc'[p].kind = proc[p].kind
        /\ proc'[p].how = proc[p].how /\ Ages(proc[p].st, proc'[p].st)
    BY DEF Calm
  <1>2. /\ proc'[p].st \in Alives => proc[p].st \in Alives
        /\ proc'[p].st \in {"loading", "starting", "serving"} =>
             proc[p].st \in {"loading", "starting", "serving"}
        /\ proc'[p].st = "loading" => proc[p].st = "loading"
        /\ proc'[p].st \in {"starting", "serving"} =>
             proc[p].st \in {"starting", "serving"}
        /\ proc'[p].st = "none" <=> proc[p].st = "none"
        /\ proc'[p].st = "stopping" => proc[p].st \in {"serving", "stopping"}
    BY <1>1 DEF Ages, Alives
  <1>3. Alive(p)' => Alive(p)
    BY <1>2 DEF Alive, Alives
  <1>4. Live(p)' => Live(p)
    BY <1>1, <1>2 DEF Live
  <1> QED
    BY <1>1, <1>2, <1>3, <1>4

LEMMA TameFits ==
  ASSUME AllFit, Tame PROVE AllFit'
  <1> SUFFICES ASSUME NEW c \in Commands, NEW n \in Nodes
      PROVE  /\ Fits(cmd[c], left[c][n], script[c][n])'
             /\ ToSpawn(c, n)' => started'[c][n] = None
             /\ Busy(c, n)' => n \in Instances'
             /\ cmd'[c] = None => /\ ~Busy(c, n)' /\ started'[c][n] = None
                                  /\ answerer'[c][n] = None
    BY Zenon DEF AllFit
  <1>1. /\ Moves(c, n) /\ Answers(c, n)
        /\ cmd' = cmd /\ started' = started /\ scene' = scene
    BY DEF Tame
  <1>2. Fits(cmd[c], left[c][n], script[c][n])'
    BY <1>1 DEF Moves, Fits, Modal
  <1>3. Instances' = Instances
    BY <1>1 DEF Instances
  <1> QED
    BY <1>1, <1>2, <1>3, Zenon DEF AllFit, Moves, Answers

LEMMA TameOrder ==
  ASSUME Inv, Tame, orderly' PROVE Ordered'
  <1>1. /\ Ordered /\ cmd' = cmd /\ started' = started /\ pidfile' = pidfile
        /\ Calm /\ \A c \in Commands, n \in Nodes : Moves(c, n) /\ Answers(c, n)
    BY DEF Tame, Inv, Calm
  <1>2. OneAtATime'
    BY <1>1, Zenon DEF Ordered, OneAtATime, Moves
  <1>3. Rivals'
    BY <1>1, CalmFacts DEF Ordered, Rivals
  <1>4. Filed'
    <2> SUFFICES ASSUME NEW p \in Pids, proc'[p].kind = "lb",
                        proc'[p].st \in {"starting", "serving"}
                 PROVE  InFile(p)'
      BY DEF Filed
    <2>1. InFile(p) /\ proc'[p].node = proc[p].node /\ proc[p].st # "none"
      BY <1>1, CalmFacts DEF Ordered, Filed
    <2>2. proc[p].node \in Nodes
      BY <2>1, SceneFacts DEF Inv, Linked
    <2>3. pidfile[proc[p].node]["lb"] \in Pids \cup {None}
      BY <2>2 DEF Inv, Typed, NodeTyped
    <2> QED
      BY <1>1, <2>1, <2>3, CalmFacts DEF InFile
  <1>5. ASSUME NEW c \in Commands, NEW n \in Nodes
        PROVE  InHand(c, n)' /\ OldOnesEnded(c, n)' /\ Told(c, n)'
    <2>1. /\ Moves(c, n) /\ Answers(c, n)
          /\ InHand(c, n) /\ OldOnesEnded(c, n) /\ Told(c, n)
      BY <1>1 DEF Ordered
    <2>2. \A p \in Pids : Old(c, n, p)' => Old(c, n, p)
      BY <1>1, CalmFacts DEF Old
    <2>3. IsReady(c, n)' => \A p \in Pids : Old(c, n, p)' => p = started'[c][n]
      BY <1>1, <2>1, <2>2, Zenon DEF Moves, OldOnesEnded
    <2>4. ASSUME cmd'[c] = "lb start", ToSpawn(c, n)', NEW p \in Pids,
                 proc'[p].node = n, proc'[p].kind = "lb"
          PROVE  proc'[p].st # "loading"
      <3>1. cmd[c] = "lb start" /\ ToSpawn(c, n)
        BY <1>1, <2>1, <2>4, Zenon DEF Moves
      <3> QED
        BY <1>1, <2>1, <2>4, <3>1, CalmFacts DEF OldOnesEnded
    <2>5. OldOnesEnded(c, n)'
      BY <2>3, <2>4, Zenon DEF OldOnesEnded
    <2>6. Told(c, n)'
      <3>1. CASE answerer'[c][n] = answerer[c][n]
        BY <1>1, <2>1, <3>1, Zenon DEF Told, Moves
      <3>2. CASE answerer'[c][n] # answerer[c][n]
        BY <1>1, <2>1, <3>2, Zenon DEF Told, Answers
      <3> QED
        BY <3>1, <3>2
    <2> QED
      BY <2>1, <2>5, <2>6, Zenon DEF Moves
  <1> QED
    BY <1>2, <1>3, <1>4, <1>5, Zenon DEF Ordered

\* f is g, but for its value at c and n.
Changed(f, g, c, n, v) ==
  /\ f[c][n] = v
  /\ \A b \in Commands, m \in Nodes : b # c \/ m # n => f[b][m] = g[b][m]

LEMMA Put ==
  ASSUME NEW S, NEW g \in [Commands -> [Nodes -> S]], NEW c \in Commands,
         NEW n \in Nodes, NEW v \in S, NEW f, f = [g EXCEPT ![c][n] = v]
  PROVE  f \in [Commands -> [Nodes -> S]] /\ Changed(f, g, c, n, v)
  BY DEF Changed

LEMMA PutCommand ==
  ASSUME NEW c \in Commands, NEW n \in Nodes, NEW f, NEW v
  PROVE  /\ left \in [Commands -> [Nodes -> Seq(Steps)]] /\ v \in Seq(Steps)
            /\ f = [left EXCEPT ![c][n] = v] =>
              f \in [Commands -> [Nodes -> Seq(Steps)]] /\ Changed(f, left, c, n, v)
         /\ script \in [Commands -> [Nodes -> Seq(Lines)]] /\ v \in Seq(Lines)
            /\ f = [script EXCEPT ![c][n] = v] =>
              f \in [Commands -> [Nodes -> Seq(Lines)]] /\ Changed(f, script, c, n, v)
         /\ answerer \in [Commands -> [Nodes -> Pids \cup {None}]]
            /\ v \in Pids \cup {None} /\ f = [answerer EXCEPT ![c][n] = v] =>
              /\ f \in [Commands -> [Nodes -> Pids \cup {None}]]
              /\ Changed(f, answerer, c, n, v)
         /\ started \in [Commands -> [Nodes -> Pids \cup {None}]]
            /\ v \in Pids \cup {None} /\ f = [started EXCEPT ![c][n] = v] =>
              /\ f \in [Commands -> [Nodes -> Pids \cup {None}]]
              /\ Changed(f, started, c, n, v)
  BY Put

LEMMA NotPut ==
  ASSUME NEW f, NEW c \in Commands, NEW n \in Nodes
  PROVE  Changed(f, f, c, n, f[c][n])
  BY DEF Changed

LEMMA CommandFacts ==
  ASSUME Inv, NEW c \in Commands, NEW n \in Nodes
  PROVE  /\ left[c][n] \in Seq(Steps) /\ script[c][n] \in Seq(Lines)
         /\ Fits(cmd[c], left[c][n], script[c][n])
         /\ left \in [Commands -> [Nodes -> Seq(Steps)]]
         /\ script \in [Commands -> [Nodes -> Seq(Lines)]]
         /\ answerer \in [Commands -> [Nodes -> Pids \cup {None}]]
         /\ started \in [Commands -> [Nodes -> Pids \cup {None}]]
         /\ Busy(c, n) => cmd[c] \in Known /\ n \in Instances
         /\ orderly => InHand(c, n) /\ OldOnesEnded(c, n) /\ Told(c, n)
  <1>1. cmd[c] \in Kinds \cup {None}
    BY DEF Inv, Typed, CmdTyped
  <1>2. cmd[c] = None => ~Busy(c, n)
    BY Zenon DEF Inv, AllFit
  <1>3. Busy(c, n) => cmd[c] \in Known /\ n \in Instances
    <2>1. Busy(c, n) => n \in Instances
      BY Zenon DEF Inv, AllFit
    <2> QED
      BY <1>1, <1>2, <2>1, SceneFacts DEF Inv
  <1>4. orderly => InHand(c, n) /\ OldOnesEnded(c, n) /\ Told(c, n)
    BY Zenon DEF Inv, Ordered
  <1> QED
    BY <1>3, <1>4 DEF Inv, Typed, CmdTyped, AllFit

LEMMA MovesTame ==
  ASSUME Inv, NEW c \in Commands, NEW n \in Nodes, NEW l, NEW s,
         Changed(left', left, c, n, l), Changed(script', script, c, n, s),
         Calm, NodeTyped', CmdTyped', UNCHANGED <<scene, cmd, started>>,
         orderly' => orderly, Moves(c, n),
         \A b \in Commands, m \in Nodes : Answers(b, m)
  PROVE  Tame
  <1>1. ASSUME NEW b \in Commands, NEW m \in Nodes, b # c \/ m # n
        PROVE  Moves(b, m)
    <2>1. left'[b][m] = left[b][m] /\ script'[b][m] = script[b][m]
      BY <1>1 DEF Changed
    <2>2. Fits(cmd[b], left[b][m], script[b][m])
      BY CommandFacts
    <2>3. orderly' => InHand(b, m)
      BY CommandFacts
    <2> QED
      BY <2>1, <2>2, <2>3, Zenon DEF Moves, ToSpawn, Busy, IsReady, InHand
  <1> QED
    BY <1>1, Zenon DEF Tame

LEMMA NodeTame ==
  ASSUME Inv, NEW c \in Commands, NEW n \in Nodes, NEW l, NEW s,
         Changed(left', left, c, n, l), Changed(script', script, c, n, s),
         Calm, NodeTyped', CmdTyped', UNCHANGED <<scene, cmd, started>>,
         orderly' => orderly, Busy(c, n),
         Fits(cmd[c], l, s), Spawns(l, s) => ToSpawn(c, n),
         orderly' => Goes(cmd[c], left[c][n], script[c][n], l, s),
         orderly' /\ l # <<>> /\ s # <<>> => Head(l) = "wait",
         \A b \in Commands, m \in Nodes : Answers(b, m)
  PROVE  Tame
  <1>1. Moves(c, n)
    BY Zenon DEF Changed, Moves, ToSpawn, Busy, IsReady, InHand, Goes
  <1> QED
    BY <1>1, MovesTame

LEMMA SameAnswers ==
  ASSUME answerer' = answerer
  PROVE  \A b \in Commands, m \in Nodes : Answers(b, m)
  BY DEF Answers

LEMMA ThroughTame ==
  ASSUME Inv, NEW c \in Commands, NEW n \in Nodes, NEW step, step \notin Scripted,
         At(c, n, step), Through(c, n) \/ Drop(c, n),
         UNCHANGED <<scene, cmd, script, started, orderly>>,
         Calm, NodeTyped', failed' \in [Commands -> BOOLEAN],
         step = "wait" => script[c][n] = <<>>,
         answerer' \in [Commands -> [Nodes -> Pids \cup {None}]],
         \A b \in Commands, m \in Nodes : Answers(b, m)
  PROVE  Tame
  <1>1. /\ left[c][n] \in Seq(Steps) /\ script[c][n] \in Seq(Lines)
        /\ Fits(cmd[c], left[c][n], script[c][n])
        /\ left \in [Commands -> [Nodes -> Seq(Steps)]]
        /\ script \in [Commands -> [Nodes -> Seq(Lines)]]
        /\ orderly => InHand(c, n)
    BY CommandFacts
  <1>2. left[c][n] # <<>> /\ Head(left[c][n]) = step /\ Busy(c, n)
    BY DEF At, Busy
  <1>3. Changed(script', script, c, n, script[c][n])
    BY NotPut DEF Changed
  <1>4. CASE Through(c, n)
    <2>1. Tail(left[c][n]) \in Seq(Steps)
      BY <1>1, <1>2
    <2>2. left' = [left EXCEPT ![c][n] = Tail(left[c][n])]
      BY <1>4 DEF Through
    <2>3. /\ left' \in [Commands -> [Nodes -> Seq(Steps)]]
          /\ Changed(left', left, c, n, Tail(left[c][n]))
      BY <1>1, <2>1, <2>2, Put
    <2>4. CmdTyped'
      BY <2>3 DEF Inv, Typed, CmdTyped
    <2>5. Goes(cmd[c], left[c][n], script[c][n], Tail(left[c][n]), script[c][n])
      BY <1>1, <1>2, GoesThrough
    <2>6. orderly /\ script[c][n] # <<>> => Tail(left[c][n]) = <<>>
      BY <1>1, <1>2 DEF InHand
    <2> QED
      BY <1>2, <1>3, <2>3, <2>4, <2>5, <2>6, NodeTame DEF Goes, ToSpawn
  <1>5. CASE Drop(c, n)
    <2>1. <<>> \in Seq(Steps)
      OBVIOUS
    <2>2. left' = [left EXCEPT ![c][n] = <<>>]
      BY <1>5 DEF Drop
    <2>3. /\ left' \in [Commands -> [Nodes -> Seq(Steps)]]
          /\ Changed(left', left, c, n, <<>>)
      BY <1>1, <2>1, <2>2, Put
    <2>4. CmdTyped'
      BY <2>3 DEF Inv, Typed, CmdTyped
    <2>5. Goes(cmd[c], left[c][n], script[c][n], <<>>, script[c][n])
      BY <1>1, GoesNowhere
    <2> QED
      BY <1>2, <1>3, <2>3, <2>4, <2>5, NodeTame DEF Goes, ToSpawn
  <1> QED
    BY <1>4, <1>5

LEMMA QuietNode ==
  ASSUME Typed, Calm, binary' \in [Nodes -> {None, "partial", "noexec", "good"}]
  PROVE  NodeTyped'
  BY DEF Typed, NodeTyped, Calm, Process0

LEMMA SettleTame ==
  ASSUME Inv, NEW c \in Commands, NEW n \in Nodes, NEW step, step \notin Scripted,
         At(c, n, step), step = "wait" => script[c][n] = <<>>,
         Through(c, n) \/ Drop(c, n),
         failed' \in {failed, [failed EXCEPT ![c] = TRUE]},
         UNCHANGED <<scene, cmd, script, started, answerer, orderly>>,
         Quieter, binary' \in [Nodes -> {None, "partial", "noexec", "good"}]
  PROVE  Tame
  <1>1. failed' \in [Commands -> BOOLEAN]
    BY DEF Inv, Typed, CmdTyped
  <1>2. Calm /\ NodeTyped'
    BY QuietNode DEF Quieter, Inv
  <1>3. answerer' \in [Commands -> [Nodes -> Pids \cup {None}]]
    BY DEF Inv, Typed, CmdTyped
  <1>4. \A b \in Commands, m \in Nodes : Answers(b, m)
    BY SameAnswers
  <1> QED
    BY <1>1, <1>2, <1>3, <1>4, ThroughTame

LEMMA ConnectTame ==
  ASSUME Inv, NEW c \in Commands, NEW n \in Nodes, UNCHANGED scene,
         Connect(c, n) \/ ScriptEnds(c, n)
  PROVE  Tame /\ Quieter
  <1>1. UNCHANGED <<proc, pidfile, binary>> /\ UNCHANGED <<cmd, script, started, answerer, orderly>>
    BY DEF Connect, ScriptEnds, nodeVars
  <1>2. Quieter
    BY <1>1, SameQuieter DEF Inv
  <1>3. binary' \in [Nodes -> {None, "partial", "noexec", "good"}]
    BY <1>1 DEF Inv, Typed, NodeTyped
  <1>4. CASE Connect(c, n)
    <2>1. /\ At(c, n, "connect") /\ (Through(c, n) \/ Drop(c, n))
          /\ failed' \in {failed, [failed EXCEPT ![c] = TRUE]}
      BY <1>4 DEF Connect, Drop
    <2> QED
      BY <1>1, <1>2, <1>3, <2>1, SettleTame DEF Scripted
  <1>5. CASE ScriptEnds(c, n)
    <2>1. At(c, n, "wait") /\ script[c][n] = <<>> /\ Through(c, n) /\ failed' = failed
      BY <1>5 DEF ScriptEnds
    <2> QED
      BY <1>1, <1>2, <1>3, <2>1, SettleTame DEF Scripted
  <1> QED
    BY <1>4, <1>5

LEMMA ChmodTame ==
  ASSUME Inv, NEW c \in Commands, NEW n \in Nodes, UNCHANGED scene, Chmod(c, n)
  PROVE  Tame /\ Quieter
  <1>1. /\ UNCHANGED <<proc, pidfile>>
        /\ UNCHANGED <<cmd, script, started, answerer, orderly>>
        /\ At(c, n, "chmod") /\ (Through(c, n) \/ Drop(c, n))
        /\ failed' \in {failed, [failed EXCEPT ![c] = TRUE]}
    BY DEF Chmod, Drop
  <1>2. Quieter
    BY <1>1, SameQuieter DEF Inv
  <1>3. binary' \in [Nodes -> {None, "partial", "noexec", "good"}]
    BY DEF Chmod, Inv, Typed, NodeTyped
  <1> QED
    BY <1>1, <1>2, <1>3, SettleTame DEF Scripted

LEMMA FlushTame ==
  ASSUME Inv, NEW c \in Commands, NEW n \in Nodes, UNCHANGED scene, Flush(c, n)
  PROVE  Tame /\ Quieter
  <1>1. /\ UNCHANGED <<proc, pidfile, binary>>
        /\ UNCHANGED <<cmd, script, started, answerer, orderly>>
        /\ At(c, n, "flush") /\ Through(c, n)
        /\ failed' \in {failed, [failed EXCEPT ![c] = TRUE]}
    BY DEF Flush, nodeVars
  <1>2. Quieter
    BY <1>1, SameQuieter DEF Inv
  <1>3. binary' \in [Nodes -> {None, "partial", "noexec", "good"}]
    BY <1>1 DEF Inv, Typed, NodeTyped
  <1> QED
    BY <1>1, <1>2, <1>3, SettleTame DEF Scripted

\* What becomes of the load balancer that has the port.
LEMMA PortQuieter ==
  ASSUME Inv, NEW n \in Nodes, PortHolder(n) # None, NEW t \in SUBSET Requests,
         NEW pol \in {"gorgo", "least-loaded"}, pidfile' = pidfile,
         \/ proc' = [proc EXCEPT ![PortHolder(n)].tree = t]
         \/ proc' = [proc EXCEPT ![PortHolder(n)] =
              [@ EXCEPT !.tree = t, !.policy = pol]]
  PROVE  Quieter
  <1>1. PortHolder(n) \in Pids
    BY PortFacts
  <1> DEFINE p == PortHolder(n)
  <1> HIDE DEF p
  <1>2. proc[p] \in Process0
    BY <1>1 DEF p, Inv, Typed, NodeTyped
  <1>3. \/ proc' = [proc EXCEPT ![p] = [proc[p] EXCEPT !.tree = t]]
        \/ proc' = [proc EXCEPT ![p] = [proc[p] EXCEPT !.tree = t, !.policy = pol]]
    BY DEF p
  <1>4. \E y : Becomes(proc[p], y) /\ proc' = [proc EXCEPT ![p] = y]
    BY <1>2, <1>3, BecomesOther
  <1> QED
    BY <1>1, <1>4, ChangedQuieter DEF p, Inv

LEMMA ClearTame ==
  ASSUME Inv, NEW c \in Commands, NEW n \in Nodes, UNCHANGED scene,
         Clear(c, n) \/ SetPolicy(c, n)
  PROVE  Tame /\ Quieter
  <1>1. /\ UNCHANGED <<pidfile, binary>>
        /\ UNCHANGED <<cmd, script, started, answerer, orderly>>
        /\ \E step \in {"clear", "policy"} : At(c, n, step)
        /\ Through(c, n) \/ Drop(c, n)
        /\ failed' \in {failed, [failed EXCEPT ![c] = TRUE]}
    BY DEF Clear, SetPolicy, Drop
  <1>2. Quieter
    <2>1. CASE proc' = proc
      BY <1>1, <2>1, SameQuieter DEF Inv
    <2>2. CASE proc' # proc
      <3>1. PortHolder(n) # None
        BY <2>2 DEF Clear, SetPolicy
      <3>2. CASE Clear(c, n)
        <4>1. proc' = [proc EXCEPT ![PortHolder(n)].tree = {}]
          BY <2>2, <3>2 DEF Clear
        <4> QED
          BY <1>1, <3>1, <4>1, PortQuieter
      <3>3. CASE SetPolicy(c, n)
        <4>1. PICK pol \in {"gorgo", "least-loaded"} :
                proc' = [proc EXCEPT ![PortHolder(n)] =
                  [@ EXCEPT !.tree = {}, !.policy = pol]]
          <5>1. proc' = [proc EXCEPT ![PortHolder(n)] = [@ EXCEPT
                  !.tree = {},
                  !.policy = IF cmd[c] = "policy gorgo" THEN "gorgo"
                             ELSE "least-loaded"]]
            BY <2>2, <3>3 DEF SetPolicy
          <5>2. CASE cmd[c] = "policy gorgo"
            BY <5>1, <5>2
          <5>3. CASE cmd[c] # "policy gorgo"
            BY <5>1, <5>3
          <5> QED
            BY <5>2, <5>3
        <4> QED
          BY <1>1, <3>1, <4>1, PortQuieter
      <3> QED
        BY <3>2, <3>3
    <2> QED
      BY <2>1, <2>2
  <1>3. binary' \in [Nodes -> {None, "partial", "noexec", "good"}]
    BY <1>1 DEF Inv, Typed, NodeTyped
  <1> QED
    BY <1>1, <1>2, <1>3, SettleTame DEF Scripted

LEMMA VerifyTame ==
  ASSUME Inv, NEW c \in Commands, NEW n \in Nodes, UNCHANGED scene, Verify(c, n)
  PROVE  Tame /\ Quieter
  <1>1. /\ UNCHANGED <<proc, pidfile, binary>>
        /\ UNCHANGED <<cmd, script, started, failed, orderly>>
        /\ At(c, n, "verify") /\ Through(c, n)
        /\ answerer' = [answerer EXCEPT ![c][n] = PortHolder(n)]
    BY DEF Verify, nodeVars
  <1>2. Quieter
    BY <1>1, SameQuieter DEF Inv
  <1>3. Calm /\ NodeTyped' /\ failed' \in [Commands -> BOOLEAN]
    <2>1. binary' \in [Nodes -> {None, "partial", "noexec", "good"}]
      BY <1>1 DEF Inv, Typed, NodeTyped
    <2> QED
      BY <1>1, <1>2, <2>1, QuietNode DEF Quieter, Inv, Typed, CmdTyped
  <1>4. /\ left[c][n] \in Seq(Steps) /\ script[c][n] \in Seq(Lines)
        /\ Fits(cmd[c], left[c][n], script[c][n])
        /\ left \in [Commands -> [Nodes -> Seq(Steps)]]
        /\ answerer \in [Commands -> [Nodes -> Pids \cup {None}]]
        /\ started \in [Commands -> [Nodes -> Pids \cup {None}]]
        /\ orderly => InHand(c, n) /\ OldOnesEnded(c, n) /\ Told(c, n)
    BY CommandFacts
  <1>5. left[c][n] # <<>> /\ Head(left[c][n]) = "verify" /\ Busy(c, n)
    BY <1>1 DEF At, Busy
  <1>6. PortHolder(n) \in Pids \cup {None}
    BY PortFacts
  <1>7. /\ answerer' \in [Commands -> [Nodes -> Pids \cup {None}]]
        /\ Changed(answerer', answerer, c, n, PortHolder(n))
    BY <1>1, <1>4, <1>6, PutCommand
  <1>8. Tail(left[c][n]) = <<>> /\ Has(left[c][n], "verify")
    BY <1>4, <1>5, PlannedTail, HasInTail DEF Fits
  <1>9. \A x : ~Has(<<>>, x)
    BY DEF Has
  <1>10. ASSUME orderly, cmd[c] \in {"restart", "proxy"}
         PROVE  ~ToSpawn(c, n)' /\ PortHolder(n) \in {None, started[c][n]}
    <2>1. script[c][n] = <<>>
      BY <1>4, <1>5, <1>10 DEF InHand
    <2>2. left'[c][n] = <<>>
      BY <1>1, <1>4, <1>8 DEF Through
    <2>3. ~ToSpawn(c, n)'
      BY <1>1, <1>9, <2>1, <2>2 DEF ToSpawn, Spawns
    <2>4. cmd[c] = "proxy"
      BY <1>4, <1>8, <1>10 DEF Fits
    <2>5. \A x : Has(left[c][n], x) => x = "verify"
      BY <1>4, <1>5, <1>8, <1>9, HasInTail
    <2>6. IsReady(c, n)
      BY <1>8, <1>9, <2>1, <2>4, <2>5 DEF IsReady, Ready
    <2>7. \A p \in Pids : Old(c, n, p) => p = started[c][n]
      BY <1>4, <1>10, <2>6 DEF OldOnesEnded
    <2>8. \A p \in Holders(n) : p \in Pids /\ Old(c, n, p)
      BY <2>4 DEF Holders, Holds, Old, Alive
    <2> QED
      BY <2>3, <2>7, <2>8, PortFacts
  <1>11. ASSUME NEW b \in Commands, NEW m \in Nodes PROVE Answers(b, m)
    <2>1. CASE b = c /\ m = n
      BY <1>1, <1>5, <1>7, <1>10, <2>1 DEF Answers, Changed
    <2>2. CASE b # c \/ m # n
      BY <1>7, <2>2 DEF Answers, Changed
    <2> QED
      BY <2>1, <2>2
  <1> QED
    BY <1>1, <1>2, <1>3, <1>7, <1>11, ThroughTame DEF Scripted

\* The other steps of a command.
LEMMA StepTame ==
  ASSUME Inv, NEW c \in Commands, NEW n \in Nodes, left[c][n] # <<>>,
         NEW l, left' = [left EXCEPT ![c][n] = l],
         NEW s \in Seq(Lines), script' = [script EXCEPT ![c][n] = s],
         failed' \in {failed, [failed EXCEPT ![c] = TRUE]},
         orderly' \in {orderly, FALSE},
         UNCHANGED <<scene, cmd, started, answerer, proc, pidfile>>,
         binary' \in [Nodes -> {None, "partial", "noexec", "good"}],
         Fits(cmd[c], l, s), Spawns(l, s) => ToSpawn(c, n),
         orderly' => Goes(cmd[c], left[c][n], script[c][n], l, s),
         orderly' /\ l # <<>> /\ s # <<>> => Head(l) = "wait"
  PROVE  Tame /\ Quieter
  <1>1. Quieter
    BY SameQuieter DEF Inv
  <1>2. Calm /\ NodeTyped'
    BY <1>1, QuietNode DEF Quieter, Inv
  <1>3. l \in Seq(Steps)
    BY DEF Fits, Planned
  <1>4. /\ left \in [Commands -> [Nodes -> Seq(Steps)]]
        /\ script \in [Commands -> [Nodes -> Seq(Lines)]]
    BY CommandFacts
  <1>5. /\ left' \in [Commands -> [Nodes -> Seq(Steps)]]
        /\ Changed(left', left, c, n, l)
    BY <1>3, <1>4, PutCommand
  <1>6. /\ script' \in [Commands -> [Nodes -> Seq(Lines)]]
        /\ Changed(script', script, c, n, s)
    BY <1>4, PutCommand
  <1>7. CmdTyped'
    BY <1>5, <1>6 DEF Inv, Typed, CmdTyped
  <1>8. \A b \in Commands, m \in Nodes : Answers(b, m)
    BY SameAnswers
  <1>9. Busy(c, n) /\ (orderly' => orderly)
    <2>1. Busy(c, n)
      BY DEF Busy
    <2>2. orderly' => orderly
      OBVIOUS
    <2> QED
      BY <2>1, <2>2
  <1> QED
    BY <1>1, <1>2, <1>5, <1>6, <1>7, <1>8, <1>9, NodeTame

LEMMA Unscripted ==
  ASSUME Inv, NEW c \in Commands, NEW n \in Nodes
  PROVE  /\ script = [script EXCEPT ![c][n] = script[c][n]]
         /\ left[c][n] # <<>> /\ Head(left[c][n]) # "wait" /\ orderly =>
              script[c][n] = <<>>
  <1>1. /\ script \in [Commands -> [Nodes -> Seq(Lines)]]
        /\ orderly => InHand(c, n)
    BY CommandFacts
  <1> QED
    BY <1>1 DEF InHand

LEMMA UploadTame ==
  ASSUME Inv, NEW c \in Commands, NEW n \in Nodes, UNCHANGED scene,
         Upload(c, n) \/ UploadToCluster(c, n)
  PROVE  Tame /\ Quieter
  <1>1. /\ UNCHANGED <<cmd, script, started, answerer, proc, pidfile, orderly>>
        /\ left[c][n] # <<>> /\ Head(left[c][n]) = "upload"
        /\ failed' \in {failed, [failed EXCEPT ![c] = TRUE]}
    BY DEF Upload, UploadToCluster, At, Drop
  <1>2. binary' \in [Nodes -> {None, "partial", "noexec", "good"}]
    BY DEF Upload, UploadToCluster, Inv, Typed, NodeTyped
  <1>3. /\ Fits(cmd[c], left[c][n], script[c][n])
        /\ script[c][n] \in Seq(Lines)
    BY CommandFacts
  <1>4. /\ script' = [script EXCEPT ![c][n] = script[c][n]]
        /\ orderly => script[c][n] = <<>>
    BY <1>1, Unscripted
  <1>5. PICK l : /\ left' = [left EXCEPT ![c][n] = l]
                 /\ Goes(cmd[c], left[c][n], script[c][n], l, script[c][n])
    <2>1. \E l \in {Tail(left[c][n]), <<>>, Tail(Tail(left[c][n])),
                    <<"failed">> \o Tail(Tail(left[c][n]))} :
            left' = [left EXCEPT ![c][n] = l]
      BY DEF Upload, UploadToCluster, Through, Drop
    <2> QED
      BY <1>1, <1>3, <2>1, GoesThrough, GoesNowhere, GoesFailed DEF Scripted
  <1>6. /\ Fits(cmd[c], l, script[c][n])
        /\ Spawns(l, script[c][n]) => ToSpawn(c, n)
    BY <1>5 DEF Goes, ToSpawn
  <1> QED
    BY <1>1, <1>2, <1>3, <1>4, <1>5, <1>6, StepTame

LEMMA ClusterConnectTame ==
  ASSUME Inv, NEW c \in Commands, NEW n \in Nodes, UNCHANGED scene,
         ClusterConnect(c, n)
  PROVE  Tame /\ Quieter
  <1>1. /\ UNCHANGED <<cmd, script, started, answerer, proc, pidfile, orderly>>
        /\ binary' = binary
        /\ left[c][n] # <<>> /\ Head(left[c][n]) = "connect"
        /\ failed' \in {failed, [failed EXCEPT ![c] = TRUE]}
    BY DEF ClusterConnect, At, nodeVars
  <1>2. binary' \in [Nodes -> {None, "partial", "noexec", "good"}]
    BY <1>1 DEF Inv, Typed, NodeTyped
  <1>3. /\ Fits(cmd[c], left[c][n], script[c][n])
        /\ script[c][n] \in Seq(Lines)
    BY CommandFacts
  <1>4. /\ script' = [script EXCEPT ![c][n] = script[c][n]]
        /\ orderly => script[c][n] = <<>>
    BY <1>1, Unscripted
  <1>5. PICK l : /\ left' = [left EXCEPT ![c][n] = l]
                 /\ Goes(cmd[c], left[c][n], script[c][n], l, script[c][n])
    <2>1. \E l \in {Tail(left[c][n]), <<>>, <<"upload", "chmod">>} :
            left' = [left EXCEPT ![c][n] = l]
      <3>1. CASE Through(c, n)
        BY <3>1 DEF Through
      <3>2. CASE left' = [left EXCEPT ![c][n] =
                            IF Modal THEN <<>> ELSE <<"upload", "chmod">>]
        BY <3>2
      <3> QED
        BY <3>1, <3>2 DEF ClusterConnect
    <2> QED
      BY <1>1, <1>3, <2>1, GoesThrough, GoesNowhere DEF Scripted
  <1>6. /\ Fits(cmd[c], l, script[c][n])
        /\ Spawns(l, script[c][n]) => ToSpawn(c, n)
    BY <1>5 DEF Goes, ToSpawn
  <1> QED
    BY <1>1, <1>2, <1>3, <1>4, <1>5, <1>6, StepTame

LEMMA FitsEmpty ==
  ASSUME NEW k, NEW l, NEW s, Fits(k, l, s)
  PROVE  Fits(k, l, <<>>) /\ (Spawns(l, <<>>) => Spawns(l, s))
  <1>1. \A x : ~Has(<<>>, x)
    BY DEF Has
  <1>2. Planned(l) /\ Written(<<>>)
    <2>1. Written(<<>>)
      BY DEF Written
    <2> QED
      BY <2>1 DEF Fits
  <1> QED
    BY <1>1, <1>2, FitsFewer DEF Fewer

LEMMA RunScriptTame ==
  ASSUME Inv, NEW c \in Commands, NEW n \in Nodes, UNCHANGED scene,
         RunScript(c, n)
  PROVE  Tame /\ Quieter
  <1>1. PICK step \in Scripted :
          /\ At(c, n, step)
          /\ script' = [script EXCEPT ![c][n] = Script(cmd[c], step)]
          /\ left' = [left EXCEPT ![c][n] = <<"wait">> \o Tail(@)]
          /\ UNCHANGED <<nodeVars, cmd, started, answerer, failed, orderly,
                         cacheVars>>
    BY DEF RunScript
  <1> DEFINE m == left[c][n]
             l == <<"wait">> \o Tail(m)
             s == Script(cmd[c], step)
  <1>2. /\ UNCHANGED <<cmd, started, answerer, proc, pidfile, orderly, failed>>
        /\ binary' = binary /\ m # <<>> /\ Head(m) = step
        /\ left' = [left EXCEPT ![c][n] = l]
    BY <1>1 DEF At, nodeVars
  <1>3. binary' \in [Nodes -> {None, "partial", "noexec", "good"}]
    BY <1>2 DEF Inv, Typed, NodeTyped
  <1>4. Fits(cmd[c], m, script[c][n]) /\ cmd[c] \in Known
    BY <1>2, CommandFacts DEF Busy
  <1>5. orderly => script[c][n] = <<>>
    <2>1. "wait" \notin Scripted
      BY DEF Scripted
    <2> QED
      BY <1>2, <2>1, Unscripted
  <1>6. Fits(cmd[c], m, <<>>) /\ (Spawns(m, <<>>) => ToSpawn(c, n))
    BY <1>4, FitsEmpty DEF ToSpawn
  <1>7. Goes(cmd[c], m, <<>>, l, s)
    BY <1>2, <1>4, <1>6, GoesScript
  <1>8. m \in Seq(Steps) /\ Head(l) = "wait"
    <2>1. m \in Seq(Steps)
      BY CommandFacts
    <2>2. Tail(m) \in Seq(Steps) /\ "wait" \in Steps
      BY <1>2, <2>1 DEF Steps
    <2> QED
      BY <2>1, <2>2, HasAfter
  <1> HIDE DEF l, s
  <1>9. Fits(cmd[c], l, s) /\ (Spawns(l, s) => ToSpawn(c, n)) /\ s \in Seq(Lines)
    BY <1>6, <1>7 DEF Goes, Fits, Written
  <1>10. script' = [script EXCEPT ![c][n] = s]
    BY <1>1 DEF s
  <1>11. orderly => Goes(cmd[c], left[c][n], script[c][n], l, s)
    BY <1>5, <1>7
  <1> QED
    BY <1>2, <1>3, <1>8, <1>9, <1>10, <1>11, StepTame

LEMMA ScriptLostTame ==
  ASSUME Inv, NEW c \in Commands, NEW n \in Nodes, UNCHANGED scene,
         ScriptLost(c, n)
  PROVE  Tame /\ Quieter
  <1> DEFINE m == left[c][n]
  <1>1. /\ UNCHANGED <<cmd, started, answerer, proc, pidfile>> /\ binary' = binary
        /\ m # <<>> /\ Head(m) = "wait"
        /\ failed' \in {failed, [failed EXCEPT ![c] = TRUE]}
    BY DEF ScriptLost, At, nodeVars, Drop
  <1>2. binary' \in [Nodes -> {None, "partial", "noexec", "good"}]
    BY <1>1 DEF Inv, Typed, NodeTyped
  <1>3. Fits(cmd[c], m, script[c][n]) /\ script[c][n] \in Seq(Lines)
    BY CommandFacts
  <1>4. PICK s \in {script[c][n], <<>>} : script' = [script EXCEPT ![c][n] = s]
    <2>1. script' \in {script, [script EXCEPT ![c][n] = <<>>]}
      BY DEF ScriptLost
    <2> QED
      BY <2>1, Unscripted
  <1>5. s \in Seq(Lines)
    <2>1. <<>> \in Seq(Lines)
      OBVIOUS
    <2> QED
      BY <1>3, <1>4, <2>1
  <1>6. CASE Through(c, n) /\ orderly' = FALSE
    <2>1. left' = [left EXCEPT ![c][n] = Tail(m)]
      BY <1>6 DEF Through
    <2>2. Goes(cmd[c], m, script[c][n], Tail(m), script[c][n])
      BY <1>1, <1>3, GoesThrough DEF Scripted
    <2>3. /\ Fits(cmd[c], Tail(m), script[c][n])
          /\ Spawns(Tail(m), script[c][n]) => ToSpawn(c, n)
      BY <2>2 DEF Goes, ToSpawn
    <2>4. Fits(cmd[c], Tail(m), s) /\ (Spawns(Tail(m), s) => ToSpawn(c, n))
      BY <1>4, <2>3, FitsEmpty
    <2> QED
      BY <1>1, <1>2, <1>4, <1>5, <1>6, <2>1, <2>4, StepTame
  <1>7. CASE Drop(c, n) /\ orderly' = orderly
    <2>1. left' = [left EXCEPT ![c][n] = <<>>]
      BY <1>7 DEF Drop
    <2>2. Goes(cmd[c], m, script[c][n], <<>>, s)
      BY <1>3, <1>4, GoesNowhere, GoesSilent
    <2>3. Fits(cmd[c], <<>>, s) /\ (Spawns(<<>>, s) => ToSpawn(c, n))
      BY <2>2 DEF Goes, ToSpawn
    <2> QED
      BY <1>1, <1>2, <1>4, <1>5, <1>7, <2>1, <2>2, <2>3, StepTame
  <1> QED
    BY <1>6, <1>7 DEF ScriptLost

\* A command moves on at several nodes.
LEMMA AllTame ==
  ASSUME Inv, NEW c \in Commands, NEW f \in [Nodes -> Seq(Steps)],
         left' = [left EXCEPT ![c] = f],
         failed' \in {failed, [failed EXCEPT ![c] = TRUE]},
         UNCHANGED <<scene, nodeVars, cmd, script, started, answerer, orderly>>,
         \A n \in Nodes :
           /\ Goes(cmd[c], left[c][n], script[c][n], f[n], script[c][n])
           /\ f[n] # <<>> => left[c][n] # <<>>
           /\ orderly /\ f[n] # <<>> /\ script[c][n] # <<>> => Head(f[n]) = "wait"
  PROVE  Tame /\ Quieter
  <1>1. Quieter
    BY SameQuieter DEF Inv, nodeVars
  <1>2. Calm /\ NodeTyped'
    <2>1. binary' \in [Nodes -> {None, "partial", "noexec", "good"}]
      BY DEF Inv, Typed, NodeTyped, nodeVars
    <2> QED
      BY <1>1, <2>1, QuietNode DEF Quieter, Inv
  <1>3. CmdTyped'
    BY DEF Inv, Typed, CmdTyped
  <1>4. \A b \in Commands, m \in Nodes : Answers(b, m)
    BY SameAnswers
  <1>5. ASSUME NEW b \in Commands, NEW m \in Nodes PROVE Moves(b, m)
    <2>1. left'[b] = IF b = c THEN f ELSE left[b]
      BY DEF Inv, Typed, CmdTyped
    <2>2. CASE b = c
      BY <2>1, <2>2, Zenon DEF Moves, ToSpawn, Busy, IsReady, InHand, Goes
    <2>3. CASE b # c
      <3>1. Fits(cmd[b], left[b][m], script[b][m]) /\ (orderly => InHand(b, m))
        BY CommandFacts
      <3> QED
        BY <2>1, <2>3, <3>1, Zenon DEF Moves, ToSpawn, Busy, IsReady, InHand
    <2> QED
      BY <2>2, <2>3
  <1> QED
    BY <1>1, <1>2, <1>3, <1>4, <1>5, Zenon DEF Tame

LEMMA InterruptTame ==
  ASSUME Inv, NEW c \in Commands, UNCHANGED scene, Interrupt(c) \/ UploadsEnd(c)
  PROVE  Tame /\ Quieter
  <1>1. CASE Interrupt(c)
    <2> DEFINE f == [n \in Nodes |-> <<>>]
    <2>1. /\ left' = [left EXCEPT ![c] = f]
          /\ failed' \in {failed, [failed EXCEPT ![c] = TRUE]}
          /\ UNCHANGED <<nodeVars, cmd, script, started, answerer, orderly>>
      BY <1>1 DEF Interrupt
    <2>2. f \in [Nodes -> Seq(Steps)] /\ \A n \in Nodes : f[n] = <<>>
      OBVIOUS
    <2>3. \A n \in Nodes :
            Goes(cmd[c], left[c][n], script[c][n], <<>>, script[c][n])
      BY CommandFacts, GoesNowhere
    <2> HIDE DEF f
    <2>4. \A n \in Nodes :
            /\ Goes(cmd[c], left[c][n], script[c][n], f[n], script[c][n])
            /\ f[n] # <<>> => left[c][n] # <<>>
            /\ orderly /\ f[n] # <<>> /\ script[c][n] # <<>> => Head(f[n]) = "wait"
      BY <2>2, <2>3
    <2> QED
      BY <2>1, <2>2, <2>4, AllTame
  <1>2. CASE UploadsEnd(c)
    <2> DEFINE failures == {n \in Nodes : At(c, n, "failed")}
               f == [n \in Nodes |->
                      IF n \notin failures THEN left[c][n]
                      ELSE IF cmd[c] # "setup" /\ failures = Instances THEN <<>>
                      ELSE Tail(left[c][n])]
    <2>1. /\ left' = [left EXCEPT ![c] = f]
          /\ UNCHANGED <<nodeVars, cmd, script, started, answerer, failed, orderly>>
      BY <1>2, Zenon DEF UploadsEnd
    <2>2. \A n \in Nodes :
            \/ f[n] = left[c][n]
            \/ /\ left[c][n] # <<>> /\ Head(left[c][n]) = "failed"
               /\ f[n] \in {<<>>, Tail(left[c][n])}
      BY DEF At
    <2>3. ASSUME NEW n \in Nodes
          PROVE  /\ f[n] \in Seq(Steps)
                 /\ Goes(cmd[c], left[c][n], script[c][n], f[n], script[c][n])
                 /\ f[n] # <<>> => left[c][n] # <<>>
                 /\ orderly /\ f[n] # <<>> /\ script[c][n] # <<>> =>
                      Head(f[n]) = "wait"
      <3> HIDE DEF f
      <3>1. /\ Fits(cmd[c], left[c][n], script[c][n])
            /\ left[c][n] \in Seq(Steps) /\ (orderly => InHand(c, n))
        BY CommandFacts
      <3>2. CASE f[n] = left[c][n]
        BY <3>1, <3>2, GoesOn DEF InHand
      <3>3. CASE /\ left[c][n] # <<>> /\ Head(left[c][n]) = "failed"
                 /\ f[n] \in {<<>>, Tail(left[c][n])}
        <4>1. Goes(cmd[c], left[c][n], script[c][n], f[n], script[c][n])
          BY <3>1, <3>3, GoesThrough, GoesNowhere DEF Scripted
        <4>2. orderly => script[c][n] = <<>>
          BY <3>3, Unscripted
        <4>3. f[n] \in Seq(Steps)
          BY <4>1 DEF Goes, Fits, Planned
        <4> QED
          BY <3>3, <4>1, <4>2, <4>3
      <3> QED
        BY <2>2, <3>2, <3>3
    <2>4. f \in [Nodes -> Seq(Steps)]
      BY <2>3
    <2> HIDE DEF f
    <2> QED
      BY <2>1, <2>3, <2>4, AllTame
  <1> QED
    BY <1>1, <1>2

-----------------------------------------------------------------------------
(* What the invariant says but for the commands *)

LEMMA QuieterLinked ==
  ASSUME Inv, Quieter, UNCHANGED <<scene, request>> PROVE Linked' /\ OnePort'
  <1>1. /\ pidfile' = pidfile /\ Instances' = Instances
        /\ \A p \in Pids : proc'[p].st = "serving" => proc[p].st = "serving"
    BY DEF Quieter, Calm, Instances
  <1>2. \A p \in Pids : /\ proc'[p].node = proc[p].node
                        /\ proc'[p].kind = proc[p].kind
                        /\ proc'[p].how = proc[p].how
                        /\ proc'[p].st = "none" <=> proc[p].st = "none"
                        /\ Holds(p)' => Holds(p)
    <2> TAKE p \in Pids
    <2>1. Calm
      BY DEF Quieter
    <2> QED
      BY <1>1, <2>1, CalmFacts DEF Holds
  <1>3. \A n \in Nodes, k \in {"lb", "proxy"} : pidfile[n][k] \in Pids \cup {None}
    BY DEF Inv, Typed, NodeTyped
  <1>4. Linked /\ OnePort
    BY DEF Inv
  <1>5. Linked'
    BY <1>1, <1>2, <1>3, <1>4 DEF Linked
  <1>6. OnePort'
    BY <1>2, <1>4 DEF OnePort
  <1> QED
    BY <1>5, <1>6

LEMMA TameInv ==
  ASSUME Inv, Tame, Quieter, CacheTyped', UNCHANGED request PROVE Inv'
  <1>1. scene' = scene /\ NodeTyped' /\ CmdTyped' /\ scene \in Scenes
    BY DEF Tame, Inv, Typed
  <1>2. Typed'
    BY <1>1 DEF Typed
  <1>3. Linked' /\ OnePort'
    BY <1>1, QuieterLinked
  <1>4. AllFit'
    BY TameFits DEF Inv
  <1>5. orderly' => Ordered'
    BY TameOrder
  <1> QED
    BY <1>2, <1>3, <1>4, <1>5 DEF Inv

LEMMA CommandInv ==
  ASSUME Inv, UNCHANGED scene,
         \/ \E c \in Commands : Interrupt(c) \/ UploadsEnd(c)
         \/ \E c \in Commands, n \in Nodes : CommandStep(c, n)
  PROVE  Inv'
  <1>1. Tame /\ Quieter
    BY ConnectTame, ChmodTame, FlushTame, ClearTame, VerifyTame, UploadTame,
       ClusterConnectTame, RunScriptTame, ScriptLostTame, InterruptTame
       DEF CommandStep
  <1>2. \/ UNCHANGED cacheVars
        \/ \E c \in Commands, n \in Nodes : Flush(c, n)
    <2>1. ASSUME NEW c \in Commands, Interrupt(c) \/ UploadsEnd(c)
          PROVE  UNCHANGED cacheVars
      BY <2>1 DEF Interrupt, UploadsEnd
    <2>2. ASSUME NEW c \in Commands, NEW n \in Nodes, CommandStep(c, n),
                 ~Flush(c, n)
          PROVE  UNCHANGED cacheVars
      BY <2>2 DEF CommandStep, ClusterConnect, UploadToCluster, Connect,
         RunScript, ScriptEnds, ScriptLost, Upload, Chmod, Verify, Clear, SetPolicy
    <2> QED
      BY <2>1, <2>2
  <1>3. CASE UNCHANGED cacheVars
    <2>1. CacheTyped' /\ request' = request
      BY <1>3, SameCaches DEF Inv, Typed, cacheVars
    <2> QED
      BY <1>1, <2>1, TameInv
  <1>4. CASE \E c \in Commands, n \in Nodes : Flush(c, n)
    <2>1. PICK c \in Commands, n \in Nodes : Flush(c, n)
      BY <1>4
    <2>2. /\ request' = request
          /\ (kv' = [kv EXCEPT ![n] = FALSE] /\ raced' = raced \cup UnderWay(n))
             \/ UNCHANGED <<kv, raced>>
      BY <2>1 DEF Flush
    <2>3. UnderWay(n) \subseteq Requests
      BY DEF UnderWay
    <2>4. CacheTyped'
      BY <2>2, <2>3 DEF Inv, Typed, CacheTyped, Requests0
    <2> QED
      BY <1>1, <2>2, <2>4, TameInv
  <1> QED
    BY <1>2, <1>3, <1>4

-----------------------------------------------------------------------------
(* Lines of scripts that start no process *)

\* The line after which no process is left that a command has to end.
Ends(c, line) == line = IF cmd[c] = "proxy" THEN "kill" ELSE "term lb"

LEMMA LineTame ==
  ASSUME Inv, NEW c \in Commands, NEW n \in Nodes, script[c][n] # <<>>, Ran(c, n),
         UNCHANGED <<scene, cmd, left, failed, orderly, started>>, Quieter,
         binary' \in [Nodes -> {None, "partial", "noexec", "good"}],
         answerer' \in [Commands -> [Nodes -> Pids \cup {None}]],
         \A b \in Commands, m \in Nodes : Answers(b, m),
         Ends(c, Head(script[c][n])) => \A p \in Pids : ~Old(c, n, p)'
  PROVE  Tame
  <1>1. Calm /\ NodeTyped'
    BY QuietNode DEF Quieter, Inv
  <1>2. /\ left[c][n] \in Seq(Steps) /\ script[c][n] \in Seq(Lines)
        /\ Fits(cmd[c], left[c][n], script[c][n])
        /\ script \in [Commands -> [Nodes -> Seq(Lines)]]
        /\ orderly => InHand(c, n)
    BY CommandFacts
  <1> DEFINE s == Tail(script[c][n])
  <1>3. s \in Seq(Lines) /\ script' = [script EXCEPT ![c][n] = s]
    BY <1>2 DEF Ran
  <1>4. /\ Fits(cmd[c], left[c][n], s)
        /\ Spawns(left[c][n], s) => ToSpawn(c, n)
        /\ Ready(cmd[c], left[c][n], s) /\ ~Ends(c, Head(script[c][n])) =>
             IsReady(c, n)
    BY <1>2, LineStep DEF ToSpawn, IsReady, Ends
  <1> HIDE DEF s
  <1>5. /\ script' \in [Commands -> [Nodes -> Seq(Lines)]]
        /\ Changed(script', script, c, n, s)
    BY <1>2, <1>3, PutCommand
  <1>6. Changed(left', left, c, n, left[c][n])
    BY DEF Changed
  <1>7. CmdTyped'
    BY <1>5 DEF Inv, Typed, CmdTyped
  <1>8. Moves(c, n)
    <2>1. left'[c][n] = left[c][n] /\ script'[c][n] = s /\ orderly' = orderly
      BY <1>5, <1>6 DEF Changed
    <2>2. Busy(c, n)
      BY DEF Busy
    <2>3. IsReady(c, n)' => IsReady(c, n) \/ \A p \in Pids : ~Old(c, n, p)'
      BY <1>4, <2>1, Zenon DEF IsReady
    <2>4. orderly' => InHand(c, n)'
      <3>1. InHand(c, n)' <=> (left[c][n] # <<>> /\ s # <<>> =>
                                Head(left[c][n]) = "wait")
        BY <2>1 DEF InHand
      <3> QED
        BY <1>2, <2>1, <3>1 DEF InHand
    <2>5. ToSpawn(c, n)' => ToSpawn(c, n)
      BY <1>4, <2>1, Zenon DEF ToSpawn
    <2> QED
      BY <1>4, <2>1, <2>2, <2>3, <2>4, <2>5, Zenon DEF Moves
  <1> QED
    BY <1>1, <1>5, <1>6, <1>7, <1>8, MovesTame

LEMMA OnNode ==
  ASSUME Inv, NEW n, NEW kinds, NEW p \in Pids, proc[p].node = n, Alive(p),
         proc[p].kind \in kinds
  PROVE  p \in On(n, kinds, Hows) /\ proc[p].kind \in {"lb", "proxy"}
  <1>1. proc[p] \in Process0
    BY DEF Inv, Typed, NodeTyped
  <1>2. proc[p].kind # None /\ proc[p].how # None
    BY DEF Inv, Linked, Alive
  <1>3. proc[p].kind \in {"lb", "proxy"} /\ proc[p].how \in Hows
    BY <1>1, <1>2 DEF Process0
  <1> QED
    BY <1>3 DEF On

LEMMA KillTame ==
  ASSUME Inv, NEW c \in Commands, NEW n \in Nodes, script[c][n] # <<>>, Ran(c, n),
         UNCHANGED <<scene, cmd, left, failed, orderly, started, answerer>>,
         binary' \in [Nodes -> {None, "partial", "noexec", "good"}], Quieter,
         Ends(c, Head(script[c][n])) => \A p \in Pids : ~Old(c, n, p)'
  PROVE  Tame /\ Quieter
  <1>1. \A b \in Commands, m \in Nodes : Answers(b, m)
    BY SameAnswers
  <1>2. answerer' \in [Commands -> [Nodes -> Pids \cup {None}]]
    BY DEF Inv, Typed, CmdTyped
  <1> QED
    BY <1>1, <1>2, LineTame

LEMMA KillSessionTame ==
  ASSUME Inv, NEW c \in Commands, NEW n \in Nodes, KillSession(c, n),
         UNCHANGED <<scene, cmd, left, failed, orderly>>
  PROVE  Tame /\ Quieter
  <1>0. PICK l \in {"hup", "hup task", "remote-stop"} :
          /\ Line(c, n, l) /\ Ran(c, n)
          /\ proc' = Killed(On(n, {"lb"},
               CASE l = "hup"         -> {"gotoni-lb", "task"}
                 [] l = "hup task"    -> {"task"}
                 [] l = "remote-stop" -> {"gotoni-lb"}))
          /\ UNCHANGED <<binary, pidfile, started, answerer>>
    BY Zenon DEF KillSession
  <1> DEFINE hows == CASE l = "hup"         -> {"gotoni-lb", "task"}
                       [] l = "hup task"    -> {"task"}
                       [] l = "remote-stop" -> {"gotoni-lb"}
  <1>1. /\ Line(c, n, l) /\ Ran(c, n) /\ proc' = Killed(On(n, {"lb"}, hows))
        /\ UNCHANGED <<binary, pidfile, started, answerer>>
    BY <1>0
  <1> HIDE DEF hows
  <1>2. \A p \in On(n, {"lb"}, hows) \cap Pids : Alive(p)
    BY DEF On
  <1>3. Quieter
    BY <1>1, <1>2, KilledQuieter DEF Inv
  <1>4. script[c][n] # <<>> /\ ~Ends(c, Head(script[c][n]))
    BY <1>1 DEF Line, Ends
  <1>5. binary' \in [Nodes -> {None, "partial", "noexec", "good"}]
    BY <1>1 DEF Inv, Typed, NodeTyped
  <1> QED
    BY <1>1, <1>3, <1>4, <1>5, KillTame

LEMMA TerminateTame ==
  ASSUME Inv, NEW c \in Commands, NEW n \in Nodes, Terminate(c, n),
         UNCHANGED <<scene, cmd, left, failed, orderly>>
  PROVE  Tame /\ Quieter
  <1>0. PICK l \in {"term lb", "term proxy", "term any"} :
          /\ Line(c, n, l) /\ Ran(c, n)
          /\ proc' = Terminated(On(n,
               CASE l = "term lb"    -> {"lb"}
                 [] l = "term proxy" -> {"proxy"}
                 [] l = "term any"   -> {"lb", "proxy"}, Hows))
          /\ UNCHANGED <<binary, pidfile, started, answerer>>
    BY Zenon DEF Terminate
  <1> DEFINE kinds == CASE l = "term lb"    -> {"lb"}
                        [] l = "term proxy" -> {"proxy"}
                        [] l = "term any"   -> {"lb", "proxy"}
  <1>1. /\ Line(c, n, l) /\ Ran(c, n) /\ proc' = Terminated(On(n, kinds, Hows))
        /\ l = "term lb" => kinds = {"lb"}
        /\ UNCHANGED <<binary, pidfile, started, answerer>>
    BY <1>0
  <1> HIDE DEF kinds
  <1>2. Quieter
    BY <1>1, TerminatedQuieter DEF Inv
  <1>3. script[c][n] # <<>> /\ Head(script[c][n]) = l
    BY <1>1 DEF Line
  <1>4. binary' \in [Nodes -> {None, "partial", "noexec", "good"}]
    BY <1>1 DEF Inv, Typed, NodeTyped
  <1>5. ASSUME Ends(c, l), NEW p \in Pids, Old(c, n, p)' PROVE FALSE
    <2>1. l = "term lb" /\ cmd[c] # "proxy"
      BY <1>1, <1>5 DEF Ends
    <2>2. Live(p)' /\ proc'[p].node = n
      BY <1>5, <2>1 DEF Old
    <2>3. Live(p) /\ proc[p].node = n
      BY <1>2, <2>2, CalmFacts DEF Quieter
    <2>4. p \in On(n, {"lb"}, Hows)
      BY <2>3, OnNode DEF Live, Alive
    <2>5. proc[p] \in Process0
      BY DEF Inv, Typed, NodeTyped
    <2>6. proc'[p].st \in {"dead", "stopping"}
      <3>1. proc'[p] = IF proc[p].st \in {"loading", "starting"}
                       THEN [proc[p] EXCEPT !.st = "dead"]
                       ELSE IF proc[p].st = "serving"
                       THEN [proc[p] EXCEPT !.st = "stopping"] ELSE proc[p]
        BY <1>1, <2>1, <2>4 DEF Terminated
      <3> QED
        BY <2>3, <2>5, <3>1 DEF Live, Process0
    <2> QED
      BY <2>2, <2>6 DEF Live
  <1> QED
    BY <1>1, <1>2, <1>3, <1>4, <1>5, KillTame

LEMMA KillHardTame ==
  ASSUME Inv, NEW c \in Commands, NEW n \in Nodes, KillHard(c, n),
         UNCHANGED <<scene, cmd, left, failed, orderly>>
  PROVE  Tame /\ Quieter
  <1>1. PICK l, ps :
          /\ l \in {"kill", "fuser"}
          /\ Line(c, n, l) /\ Ran(c, n) /\ proc' = Killed(ps)
          /\ l = "kill" => ps = On(n, {"lb", "proxy"}, Hows)
          /\ l = "fuser" => ps = Holders(n)
          /\ UNCHANGED <<binary, pidfile, started, answerer>>
    BY DEF KillHard
  <1>2. \A p \in ps \cap Pids : Alive(p)
    BY <1>1 DEF On, Holders, Holds, Alive
  <1>3. Quieter
    BY <1>1, <1>2, KilledQuieter DEF Inv
  <1>4. script[c][n] # <<>> /\ Head(script[c][n]) = l
    BY <1>1 DEF Line
  <1>5. binary' \in [Nodes -> {None, "partial", "noexec", "good"}]
    BY <1>1 DEF Inv, Typed, NodeTyped
  <1>6. ASSUME Ends(c, l), NEW p \in Pids, Old(c, n, p)' PROVE FALSE
    <2>1. l = "kill" /\ cmd[c] = "proxy"
      BY <1>1, <1>6 DEF Ends
    <2>2. Alive(p)' /\ proc'[p].node = n
      BY <1>6, <2>1 DEF Old
    <2>3. Alive(p) /\ proc[p].node = n /\ Calm
      BY <1>3, <2>2, CalmFacts DEF Quieter
    <2>4. p \in On(n, {proc[p].kind}, Hows) /\ proc[p].kind \in {"lb", "proxy"}
      BY <2>3, OnNode
    <2>5. p \in ps
      BY <1>1, <2>1, <2>4 DEF On
    <2>6. proc'[p].st = "dead"
      <3>1. proc'[p] = [proc[p] EXCEPT !.st = "dead"]
        BY <1>1, <2>5 DEF Killed
      <3>2. proc[p] \in Process0
        BY DEF Inv, Typed, NodeTyped
      <3> QED
        BY <3>1, <3>2 DEF Process0
    <2> QED
      BY <2>2, <2>6 DEF Alive
  <1> QED
    BY <1>1, <1>3, <1>4, <1>5, <1>6, KillTame

LEMMA StopTame ==
  ASSUME Inv, NEW c \in Commands, NEW n \in Nodes,
         StopByPidFile(c, n) \/ RemoveBinary(c, n),
         UNCHANGED <<scene, cmd, left, failed, orderly>>
  PROVE  Tame /\ Quieter
  <1>1. PICK l \in {"lb stop", "proxy stop", "rm"} :
          /\ Line(c, n, l) /\ Ran(c, n) /\ UNCHANGED <<pidfile, started, answerer>>
          /\ proc' = proc \/ \E ps : proc' = Terminated(ps)
          /\ binary' \in {binary, [binary EXCEPT ![n] = None]}
    <2>1. CASE StopByPidFile(c, n)
      <3>1. PICK k \in {"lb", "proxy"} :
              /\ Line(c, n, IF k = "lb" THEN "lb stop" ELSE "proxy stop")
              /\ Ran(c, n) /\ proc' = Terminated({pidfile[n][k]} \ {None})
              /\ UNCHANGED <<binary, pidfile, started, answerer>>
        BY <2>1 DEF StopByPidFile
      <3> QED
        BY <3>1
    <2>2. CASE RemoveBinary(c, n)
      BY <2>2 DEF RemoveBinary
    <2> QED
      BY <2>1, <2>2
  <1>2. Quieter
    BY <1>1, SameQuieter, TerminatedQuieter DEF Inv
  <1>3. script[c][n] # <<>> /\ ~Ends(c, Head(script[c][n]))
    BY <1>1 DEF Line, Ends
  <1>4. binary' \in [Nodes -> {None, "partial", "noexec", "good"}]
    BY <1>1 DEF Inv, Typed, NodeTyped
  <1> QED
    BY <1>1, <1>2, <1>3, <1>4, KillTame

LEMMA HealthTame ==
  ASSUME Inv, NEW c \in Commands, NEW n \in Nodes, CheckHealth(c, n),
         UNCHANGED <<scene, cmd, left, failed, orderly>>
  PROVE  Tame /\ Quieter
  <1>1. PICK p : /\ p = None \/ (p = PortHolder(n) /\ proc[p].kind = "lb"
                                 /\ proc[p].st = "serving" /\ p # None)
                 /\ answerer' = [answerer EXCEPT ![c][n] = p]
    <2> DEFINE q == PortHolder(n)
               v == IF q # None /\ proc[q].kind = "lb" /\ proc[q].st = "serving"
                    THEN q ELSE None
    <2>1. answerer' = [answerer EXCEPT ![c][n] = v]
      BY DEF CheckHealth
    <2> QED
      BY <2>1
  <1>2. /\ Line(c, n, "health") /\ Ran(c, n)
        /\ UNCHANGED <<proc, pidfile, binary, started>>
    BY DEF CheckHealth, nodeVars
  <1>3. Quieter
    BY <1>2, SameQuieter DEF Inv
  <1>4. script[c][n] # <<>> /\ Head(script[c][n]) = "health"
    BY <1>2 DEF Line
  <1>5. binary' \in [Nodes -> {None, "partial", "noexec", "good"}]
    BY <1>2 DEF Inv, Typed, NodeTyped
  <1>6. p \in Pids \cup {None}
    BY <1>1, PortFacts
  <1>7. /\ left[c][n] \in Seq(Steps) /\ script[c][n] \in Seq(Lines)
        /\ Fits(cmd[c], left[c][n], script[c][n])
        /\ script \in [Commands -> [Nodes -> Seq(Lines)]]
        /\ answerer \in [Commands -> [Nodes -> Pids \cup {None}]]
        /\ orderly => OldOnesEnded(c, n)
    BY CommandFacts
  <1>8. /\ answerer' \in [Commands -> [Nodes -> Pids \cup {None}]]
        /\ Changed(answerer', answerer, c, n, p)
    BY <1>1, <1>6, <1>7, PutCommand
  <1>9. cmd[c] = "restart"
    BY <1>4, <1>7, HasInTail DEF Fits
  <1>10. ~ToSpawn(c, n)' /\ IsReady(c, n)
    <2>1. script'[c][n] = Tail(script[c][n])
      BY <1>2, <1>7 DEF Ran
    <2>2. /\ ~Spawns(left[c][n], Tail(script[c][n]))
          /\ Ready(cmd[c], left[c][n], script[c][n])
      BY <1>4, <1>7, <1>9, LineStep
    <2> QED
      BY <2>1, <2>2 DEF ToSpawn, IsReady
  <1>11. orderly => p \in {None, started[c][n]}
    <2>1. CASE p # None
      <3>1. p \in Pids /\ p \in Holders(n) /\ proc[p].kind = "lb"
            /\ proc[p].st = "serving"
        BY <1>1, <2>1, PortFacts
      <3>2. Old(c, n, p)
        BY <1>9, <3>1 DEF Old, Live, Holders
      <3> QED
        BY <1>7, <1>10, <3>1, <3>2 DEF OldOnesEnded
    <2> QED
      BY <2>1
  <1>12. ASSUME NEW b \in Commands, NEW m \in Nodes PROVE Answers(b, m)
    <2>1. CASE b = c /\ m = n
      BY <1>4, <1>8, <1>10, <1>11, <2>1 DEF Answers, Changed, Busy
    <2>2. CASE b # c \/ m # n
      BY <1>8, <2>2 DEF Answers, Changed
    <2> QED
      BY <2>1, <2>2
  <1>13. ~Ends(c, Head(script[c][n]))
    BY <1>4 DEF Ends
  <1> QED
    BY <1>2, <1>3, <1>4, <1>5, <1>8, <1>12, <1>13, LineTame

-----------------------------------------------------------------------------
(* Lines of scripts that start a process *)

Launching(c, line, kind, how) ==
  \/ line = "nohup" /\ cmd[c] = "restart" /\ kind = "lb" /\ how = "nohup"
  \/ line = "nohup" /\ cmd[c] = "proxy" /\ kind = "proxy" /\ how = "nohup"
  \/ line = "lb start" /\ kind = "lb" /\ how = "hand"
  \/ line = "proxy start" /\ kind = "proxy" /\ how = "hand"
  \/ line \in {"tmux", "task"} /\ kind = "lb" /\ how \in {"gotoni-lb", "task"}

Launched(c, n) ==
  \E line \in Starters, kind \in {"lb", "proxy"}, how \in Hows :
    /\ Line(c, n, line) /\ Launching(c, line, kind, how) /\ Ran(c, n)
    /\ \E p \in Pids : /\ Born(n, kind, how, p)
                       /\ started' = [started EXCEPT ![c][n] = p]

\* The line is carried out, and nothing is started, or the script is over.
NotLaunched(c, n) ==
  /\ UNCHANGED <<proc, started>>
  /\ \/ Ran(c, n) /\ \E line \in Starters : Line(c, n, line)
     \/ /\ Line(c, n, "nohup") \/ Line(c, n, "tmux")
        /\ \/ script' = [script EXCEPT ![c][n] = <<>>]
           \/ /\ script' = [script EXCEPT ![c][n] = <<"error">>]
              /\ At(c, n, "wait")

LEMMA SpawnCases ==
  ASSUME NEW c, NEW n, NEW line \in Starters, NEW kind \in {"lb", "proxy"},
         NEW how \in Hows, Line(c, n, line), Launching(c, line, kind, how),
         Ran(c, n), Spawn(c, n, kind, how)
  PROVE  Launched(c, n) \/ NotLaunched(c, n)
  <1>1. CASE binary[n] = "good"
    <2>1. PICK p \in FreePid :
            /\ proc' = [proc EXCEPT ![p] = Process(n, kind, how)]
            /\ started' = [started EXCEPT ![c][n] = p]
      BY <1>1 DEF Spawn
    <2>2. p \in Pids /\ Born(n, kind, how, p)
      BY <2>1 DEF Born, FreePid
    <2> QED
      BY <2>1, <2>2 DEF Launched
  <1>2. CASE binary[n] # "good"
    <2>1. UNCHANGED <<proc, started>>
      BY <1>2 DEF Spawn
    <2> QED
      BY <2>1 DEF NotLaunched
  <1> QED
    BY <1>1, <1>2

LEMMA StartCases ==
  ASSUME NEW c, NEW n, StartProcess(c, n) \/ StartSession(c, n)
  PROVE  /\ Launched(c, n) \/ NotLaunched(c, n)
         /\ UNCHANGED <<binary, pidfile, answerer>>
  <1>0. /\ \A l \in {"nohup", "lb start", "proxy start", "tmux", "task"} :
             l \in Starters
        /\ {"nohup", "hand", "gotoni-lb", "task"} \subseteq Hows
    BY DEF Starters, Hows
  <1>1. CASE StartProcess(c, n)
    <2>1. CASE /\ Line(c, n, "nohup")
               /\ script' = [script EXCEPT ![c][n] = <<>>]
               /\ UNCHANGED <<nodeVars, started, answerer>>
      BY <2>1 DEF NotLaunched, nodeVars
    <2>2. CASE Line(c, n, "nohup") /\ cmd[c] = "restart" /\ Spawn(c, n, "lb", "nohup")
               /\ Ran(c, n) /\ UNCHANGED <<binary, pidfile, answerer>>
      <3>1. Launching(c, "nohup", "lb", "nohup")
        BY <2>2 DEF Launching
      <3> QED
        BY <1>0, <2>2, <3>1, SpawnCases
    <2>3. CASE Line(c, n, "nohup") /\ cmd[c] = "proxy"
               /\ Spawn(c, n, "proxy", "nohup")
               /\ Ran(c, n) /\ UNCHANGED <<binary, pidfile, answerer>>
      <3>1. Launching(c, "nohup", "proxy", "nohup")
        BY <2>3 DEF Launching
      <3> QED
        BY <1>0, <2>3, <3>1, SpawnCases
    <2>4. CASE Line(c, n, "lb start") /\ Spawn(c, n, "lb", "hand")
               /\ Ran(c, n) /\ UNCHANGED <<binary, pidfile, answerer>>
      <3>1. Launching(c, "lb start", "lb", "hand")
        BY DEF Launching
      <3> QED
        BY <1>0, <2>4, <3>1, SpawnCases
    <2>5. CASE Line(c, n, "proxy start") /\ Spawn(c, n, "proxy", "hand")
               /\ Ran(c, n) /\ UNCHANGED <<binary, pidfile, answerer>>
      <3>1. Launching(c, "proxy start", "proxy", "hand")
        BY DEF Launching
      <3> QED
        BY <1>0, <2>5, <3>1, SpawnCases
    <2> QED
      BY <1>1, <2>1, <2>2, <2>3, <2>4, <2>5 DEF StartProcess
  <1>2. CASE StartSession(c, n)
    <2>1. PICK line \in {"tmux", "task"} : Line(c, n, line)
      BY <1>2 DEF StartSession
    <2>2. UNCHANGED <<binary, pidfile, answerer>>
      BY <1>2 DEF StartSession
    <2> DEFINE how == IF Line(c, n, "tmux") THEN "gotoni-lb" ELSE "task"
    <2>3. CASE UNCHANGED <<proc, started>> /\ Ran(c, n)
      BY <1>0, <2>1, <2>2, <2>3 DEF NotLaunched
    <2>5. CASE /\ UNCHANGED <<proc, started>> /\ how = "gotoni-lb"
               /\ At(c, n, "wait")
               /\ script' = [script EXCEPT ![c][n] = <<"error">>]
      <3>1. Line(c, n, "tmux")
        BY <2>5
      <3> QED
        BY <2>2, <2>5, <3>1 DEF NotLaunched
    <2>4. CASE Spawn(c, n, "lb", how) /\ Ran(c, n)
      <3>1. how \in {"gotoni-lb", "task"}
        OBVIOUS
      <3> HIDE DEF how
      <3>2. Launching(c, line, "lb", how)
        BY <2>1, <3>1 DEF Launching
      <3> QED
        BY <1>0, <2>1, <2>2, <2>4, <3>1, <3>2, SpawnCases
    <2> QED
      BY <1>2, <2>3, <2>4, <2>5 DEF StartSession
  <1> QED
    BY <1>1, <1>2

LEMMA NotLaunchedTame ==
  ASSUME Inv, NEW c \in Commands, NEW n \in Nodes, NotLaunched(c, n),
         UNCHANGED <<scene, cmd, left, failed, orderly, binary, pidfile, answerer>>
  PROVE  Tame /\ Quieter
  <1>1. UNCHANGED <<proc, started>>
    BY DEF NotLaunched
  <1>2. Quieter
    BY <1>1, SameQuieter DEF Inv
  <1>3. binary' \in [Nodes -> {None, "partial", "noexec", "good"}]
    BY DEF Inv, Typed, NodeTyped
  <1>4. CASE Ran(c, n) /\ \E line \in Starters : Line(c, n, line)
    <2>1. script[c][n] # <<>> /\ Head(script[c][n]) \in Starters
      BY <1>4 DEF Line
    <2>2. ~Ends(c, Head(script[c][n]))
      BY <2>1 DEF Ends, Starters
    <2> QED
      BY <1>1, <1>2, <1>3, <1>4, <2>1, <2>2, KillTame
  <1>5. ASSUME Line(c, n, "nohup") \/ Line(c, n, "tmux"),
               NEW z \in {<<>>, <<"error">>}, script' = [script EXCEPT ![c][n] = z],
               z = <<>> \/ At(c, n, "wait")
        PROVE  Tame
    <2>1. script[c][n] # <<>> /\ Head(script[c][n]) \in {"nohup", "tmux"}
      BY <1>5 DEF Line
    <2>2. /\ Fits(cmd[c], left[c][n], script[c][n])
          /\ script \in [Commands -> [Nodes -> Seq(Lines)]]
      BY CommandFacts
    <2>3. /\ Goes(cmd[c], left[c][n], script[c][n], left[c][n], z)
          /\ z \in Seq(Lines)
      BY <2>1, <2>2, LineStops
    <2>5. /\ script' \in [Commands -> [Nodes -> Seq(Lines)]]
          /\ Changed(script', script, c, n, z)
      BY <1>5, <2>2, <2>3, PutCommand
    <2>6. CmdTyped'
      BY <1>1, <2>5 DEF Inv, Typed, CmdTyped
    <2>7. Changed(left', left, c, n, left[c][n])
      BY DEF Changed
    <2>8. Busy(c, n)
      BY <2>1 DEF Busy
    <2>9. \A b \in Commands, m \in Nodes : Answers(b, m)
      BY SameAnswers
    <2>10. Calm /\ NodeTyped'
      BY <1>2, <1>3, QuietNode DEF Quieter, Inv
    <2>11. /\ Fits(cmd[c], left[c][n], z)
           /\ Spawns(left[c][n], z) => ToSpawn(c, n)
           /\ z # <<>> => Head(left[c][n]) = "wait"
      BY <1>5, <2>3 DEF Goes, ToSpawn, At
    <2> QED
      BY <1>1, <1>2, <2>3, <2>5, <2>6, <2>7, <2>8, <2>9, <2>10, <2>11, NodeTame
  <1> QED
    BY <1>2, <1>4, <1>5 DEF NotLaunched

LEMMA IdleFacts ==
  ASSUME Inv, NEW c \in Commands, NEW n \in Nodes, ~Busy(c, n)
  PROVE  ~ToSpawn(c, n) /\ ~IsReady(c, n)
  <1>1. \A x : ~Has(<<>>, x)
    BY DEF Has
  <1>2. left[c][n] = <<>> /\ script[c][n] = <<>>
    BY DEF Busy
  <1> QED
    BY <1>1, <1>2 DEF ToSpawn, Spawns, IsReady, Ready, Launches

\* What there is when a command starts a process.
LaunchFacts(c, n, line, kind, how, p) ==
  /\ p \in Pids /\ n \in Instances /\ proc[p].st = "none"
  /\ proc' \in [Pids -> Process0]
  /\ proc'[p].st = "loading" /\ proc'[p].node = n /\ proc'[p].kind = kind
  /\ proc'[p].how = how /\ proc'[p].tree = {}
  /\ \A q \in Pids : q # p => proc'[q] = proc[q]
  /\ script' \in [Commands -> [Nodes -> Seq(Lines)]]
  /\ Changed(script', script, c, n, Tail(script[c][n]))
  /\ started' \in [Commands -> [Nodes -> Pids \cup {None}]]
  /\ Changed(started', started, c, n, p)
  /\ script[c][n] # <<>> /\ ToSpawn(c, n) /\ started[c][n] = None
  /\ Fits(cmd[c], left[c][n], Tail(script[c][n]))
  /\ ~Spawns(left[c][n], Tail(script[c][n]))
  /\ Ready(cmd[c], left[c][n], Tail(script[c][n])) => IsReady(c, n)
  /\ kind = "lb" /\ how # "hand" => cmd[c] # "proxy" /\ IsReady(c, n)
  /\ kind = "lb" /\ how = "hand" => cmd[c] = "lb start"

LEMMA LaunchedFacts ==
  ASSUME Inv, NEW c \in Commands, NEW n \in Nodes, NEW line \in Starters,
         NEW kind \in {"lb", "proxy"}, NEW how \in Hows, NEW p,
         Line(c, n, line), Launching(c, line, kind, how), Ran(c, n),
         Born(n, kind, how, p), started' = [started EXCEPT ![c][n] = p]
  PROVE  LaunchFacts(c, n, line, kind, how, p)
  <1>1. /\ p \in Pids /\ proc[p].st = "none" /\ proc' \in [Pids -> Process0]
        /\ proc'[p].st = "loading" /\ proc'[p].node = n /\ proc'[p].kind = kind
        /\ proc'[p].how = how /\ proc'[p].tree = {}
        /\ \A q \in Pids : q # p => proc'[q] = proc[q]
    BY BornFacts DEF Inv
  <1>2. /\ left[c][n] \in Seq(Steps) /\ script[c][n] \in Seq(Lines)
        /\ Fits(cmd[c], left[c][n], script[c][n])
        /\ script \in [Commands -> [Nodes -> Seq(Lines)]]
        /\ started \in [Commands -> [Nodes -> Pids \cup {None}]]
        /\ Busy(c, n) => n \in Instances
    BY CommandFacts
  <1>3. script[c][n] # <<>> /\ Head(script[c][n]) = line /\ Busy(c, n)
    BY DEF Line, Busy
  <1> DEFINE l == left[c][n]
             s == script[c][n]
  <1>4. Tail(s) \in Seq(Lines) /\ Has(s, line)
    BY <1>2, <1>3, HasInTail
  <1>5. /\ script' \in [Commands -> [Nodes -> Seq(Lines)]]
        /\ Changed(script', script, c, n, Tail(s))
    BY <1>2, <1>4, PutCommand DEF Ran
  <1>6. /\ started' \in [Commands -> [Nodes -> Pids \cup {None}]]
        /\ Changed(started', started, c, n, p)
    BY <1>1, <1>2, PutCommand
  <1>7. /\ Fits(cmd[c], l, Tail(s)) /\ ToSpawn(c, n) /\ ~Spawns(l, Tail(s))
        /\ Ready(cmd[c], l, Tail(s)) => IsReady(c, n)
        /\ line \in {"nohup", "tmux", "task"} /\ cmd[c] # "proxy" => IsReady(c, n)
    <2>1. line # (IF cmd[c] = "proxy" THEN "kill" ELSE "term lb")
      BY DEF Starters
    <2> HIDE DEF l, s
    <2>2. l = left[c][n] /\ s = script[c][n]
      BY DEF l, s
    <2>3. Fits(cmd[c], l, s) /\ s # <<>> /\ Head(s) = line
      BY <1>2, <1>3, <2>2
    <2>4. /\ Fits(cmd[c], l, Tail(s)) /\ Spawns(l, s) /\ ~Spawns(l, Tail(s))
          /\ Ready(cmd[c], l, Tail(s)) => Ready(cmd[c], l, s)
          /\ line \in {"nohup", "tmux", "task"} /\ cmd[c] # "proxy" =>
               Ready(cmd[c], l, s)
      BY <2>1, <2>3, LineStep
    <2> QED
      BY <2>2, <2>4, Zenon DEF ToSpawn, IsReady
  <1>8. started[c][n] = None
    BY <1>7, Zenon DEF Inv, AllFit
  <1>9. kind = "lb" /\ how # "hand" => cmd[c] # "proxy" /\ IsReady(c, n)
    BY <1>2, <1>4, <1>7 DEF Launching, Fits
  <1>10. kind = "lb" /\ how = "hand" => cmd[c] = "lb start"
    BY <1>2, <1>4 DEF Launching, Fits
  <1> QED
    BY <1>1, <1>2, <1>3, <1>5, <1>6, <1>7, <1>8, <1>9, <1>10, Zenon
       DEF LaunchFacts

LEMMA LaunchedLinked ==
  ASSUME Inv, NEW c \in Commands, NEW n \in Nodes, NEW line, NEW kind \in {"lb", "proxy"},
         NEW how \in Hows, NEW p, LaunchFacts(c, n, line, kind, how, p),
         UNCHANGED <<scene, cmd, left, failed, orderly, cacheVars, binary, pidfile,
                     answerer>>
  PROVE  Typed' /\ Linked' /\ OnePort' /\ AllFit'
  <1>1. /\ p \in Pids /\ n \in Instances /\ proc[p].st = "none"
        /\ proc' \in [Pids -> Process0]
        /\ proc'[p].st = "loading" /\ proc'[p].node = n /\ proc'[p].kind = kind
        /\ proc'[p].how = how
        /\ \A q \in Pids : q # p => proc'[q] = proc[q]
    BY DEF LaunchFacts
  <1>2. Typed'
    <2>1. NodeTyped'
      BY <1>1 DEF Inv, Typed, NodeTyped, Process0
    <2>2. CmdTyped'
      BY DEF Inv, Typed, CmdTyped, LaunchFacts
    <2>3. CacheTyped'
      BY SameCaches DEF Inv, Typed
    <2> QED
      BY <2>1, <2>2, <2>3 DEF Inv, Typed
  <1>3. Linked'
    <2>1. None \notin Hows /\ kind # None
      BY DeployAssumption, <1>1 DEF DeployAssumption, Inv, Typed, Process0, NodeTyped
    <2>2. \A m \in Nodes, k \in {"lb", "proxy"} : pidfile[m][k] \in Pids \cup {None}
      BY DEF Inv, Typed, NodeTyped
    <2>3. Linked /\ Instances' = Instances /\ request' = request /\ pidfile' = pidfile
      BY DEF Inv, Instances, cacheVars
    <2>4. \A r \in Requests : request[r].st # "none" => request[r].lb # p
      BY <1>1, <2>3 DEF Linked
    <2>5. \A m \in Nodes, k \in {"lb", "proxy"} : pidfile[m][k] # p
      BY <1>1, <2>2, <2>3, SceneFacts DEF Linked, Inv
    <2> QED
      BY <1>1, <2>1, <2>2, <2>3, <2>4, <2>5 DEF Linked
  <1>4. OnePort'
    <2>1. \A q \in Pids : Holds(q)' => Holds(q) /\ q # p
      BY <1>1 DEF Holds
    <2> QED
      BY <1>1, <2>1 DEF Inv, OnePort
  <1>5. AllFit'
    <2> SUFFICES ASSUME NEW b \in Commands, NEW m \in Nodes
        PROVE  /\ Fits(cmd[b], left[b][m], script[b][m])'
               /\ ToSpawn(b, m)' => started'[b][m] = None
               /\ Busy(b, m)' => m \in Instances'
               /\ cmd'[b] = None => /\ ~Busy(b, m)' /\ started'[b][m] = None
                                    /\ answerer'[b][m] = None
      BY Zenon DEF AllFit
    <2>0. Instances' = Instances
      BY DEF Instances
    <2>3. /\ Fits(cmd[b], left[b][m], script[b][m])
          /\ ToSpawn(b, m) => started[b][m] = None
          /\ Busy(b, m) => m \in Instances
          /\ cmd[b] = None => /\ ~Busy(b, m) /\ started[b][m] = None
                              /\ answerer[b][m] = None
      BY Zenon DEF Inv, AllFit
    <2>1. CASE b = c /\ m = n
      <3>1. /\ Fits(cmd[c], left[c][n], script'[c][n]) /\ Busy(c, n)
            /\ ~Spawns(left[c][n], script'[c][n])
        BY DEF LaunchFacts, Changed, Busy
      <3> QED
        BY <1>1, <2>0, <2>1, <2>3, <3>1 DEF Fits, Modal, ToSpawn
    <2>2. CASE b # c \/ m # n
      <3>1. script'[b][m] = script[b][m] /\ started'[b][m] = started[b][m]
        BY <2>2 DEF LaunchFacts, Changed
      <3> QED
        BY <2>0, <2>3, <3>1 DEF Fits, Modal, ToSpawn, Busy
    <2> QED
      BY <2>1, <2>2
  <1> QED
    BY <1>2, <1>3, <1>4, <1>5

LEMMA LaunchedOrder ==
  ASSUME Inv, NEW c \in Commands, NEW n \in Nodes, NEW line, NEW kind \in {"lb", "proxy"},
         NEW how \in Hows, NEW p, LaunchFacts(c, n, line, kind, how, p), orderly,
         UNCHANGED <<scene, cmd, left, failed, orderly, cacheVars, binary, pidfile,
                     answerer>>
  PROVE  Ordered'
  <1>1. /\ p \in Pids /\ proc[p].st = "none"
        /\ proc'[p].st = "loading" /\ proc'[p].node = n /\ proc'[p].kind = kind
        /\ proc'[p].how = how
        /\ \A q \in Pids : q # p => proc'[q] = proc[q]
        /\ started[c][n] = None /\ Busy(c, n) /\ ToSpawn(c, n)
    BY DEF LaunchFacts, Busy
  <1>2. /\ OneAtATime /\ Rivals /\ Filed /\ OldOnesEnded(c, n) /\ Told(c, n)
        /\ Linked
    BY DEF Inv, Ordered
  <1>3. \A b \in Commands, m \in Nodes : b # c \/ m # n =>
          script'[b][m] = script[b][m] /\ started'[b][m] = started[b][m]
    BY DEF LaunchFacts, Changed
  <1>4. script'[c][n] = Tail(script[c][n]) /\ started'[c][n] = p
    BY DEF LaunchFacts, Changed
  <1>5. None \notin Pids
    BY SceneFacts DEF Inv
  <1>6. IsReady(c, n) => \A q \in Pids : ~Old(c, n, q)
    BY <1>1, <1>2, <1>5 DEF OldOnesEnded
  <1>7. kind = "lb" => \/ \A q \in Pids : proc[q].node = n => ~Live(q)
                       \/ /\ how = "hand"
                          /\ \A q \in Pids : proc[q].node = n /\ proc[q].kind = "lb" =>
                               proc[q].st # "loading"
    <2>1. CASE kind = "lb" /\ how # "hand"
      <3>1. IsReady(c, n) /\ cmd[c] # "proxy"
        BY <2>1 DEF LaunchFacts
      <3> QED
        BY <1>6, <3>1 DEF Old
    <2>2. CASE kind = "lb" /\ how = "hand"
      <3>1. cmd[c] = "lb start"
        BY <2>2 DEF LaunchFacts
      <3> QED
        BY <1>1, <1>2, <2>2, <3>1 DEF OldOnesEnded
    <2> QED
      BY <2>1, <2>2
  <1>8. \A b \in Commands, m \in Nodes : Busy(b, m)' => Busy(b, m)
    BY <1>1, <1>3 DEF Busy
  <1>9. OneAtATime'
    BY <1>2, <1>8, Zenon DEF OneAtATime
  <1>10. Rivals'
    <2> SUFFICES ASSUME NEW a \in Pids, NEW q \in Pids, Live(a)', Live(q)',
                        proc'[q].st = "loading", a # q,
                        proc'[a].node = proc'[q].node
                 PROVE  proc'[q].how = "hand"
      BY DEF Rivals
    <2>1. CASE a # p /\ q # p
      BY <1>1, <1>2, <2>1 DEF Rivals, Live
    <2>2. CASE q = p
      BY <1>1, <1>7, <2>2 DEF Live
    <2>3. CASE a = p
      BY <1>1, <1>7, <2>3 DEF Live
    <2> QED
      BY <2>1, <2>2, <2>3
  <1>11. Filed'
    <2> SUFFICES ASSUME NEW a \in Pids, proc'[a].kind = "lb",
                        proc'[a].st \in {"starting", "serving"}
                 PROVE  InFile(a)'
      BY DEF Filed
    <2>1. a # p /\ proc'[a] = proc[a] /\ InFile(a)
      BY <1>1, <1>2 DEF Filed
    <2>2. proc[a].node \in Nodes
      BY <1>2, <2>1, SceneFacts DEF Inv, Linked
    <2>3. /\ pidfile[proc[a].node]["lb"] \in Pids \cup {None}
          /\ pidfile[proc[a].node]["lb"] # p
      BY <1>1, <1>2, <1>5, <2>2 DEF Inv, Typed, NodeTyped, Linked
    <2> QED
      BY <1>1, <2>1, <2>3 DEF InFile
  <1>12. ASSUME NEW b \in Commands, NEW m \in Nodes
         PROVE  InHand(b, m)' /\ OldOnesEnded(b, m)' /\ Told(b, m)'
    <2>0. InHand(b, m) /\ OldOnesEnded(b, m) /\ Told(b, m)
      BY DEF Inv, Ordered
    <2>1. CASE b = c /\ m = n
      <3>1. InHand(c, n)'
        <4>1. script[c][n] # <<>>
          BY DEF LaunchFacts
        <4> QED
          BY <2>0, <2>1, <4>1 DEF InHand
      <3>2. ~ToSpawn(c, n)' /\ (IsReady(c, n)' => IsReady(c, n))
        BY <1>4 DEF LaunchFacts, ToSpawn, IsReady
      <3>3. \A q \in Pids : Old(c, n, q)' /\ q # p => Old(c, n, q)
        BY <1>1 DEF Old, Alive, Live
      <3>4. OldOnesEnded(c, n)'
        BY <1>4, <1>6, <3>2, <3>3, Zenon DEF OldOnesEnded
      <3>5. Told(c, n)'
        BY <1>1, <1>2, <3>2 DEF Told
      <3> QED
        BY <2>1, <3>1, <3>4, <3>5
    <2>2. CASE b = c /\ m # n
      <3>1. script'[b][m] = script[b][m] /\ started'[b][m] = started[b][m]
        BY <1>3, <2>2
      <3>2. \A q \in Pids : Old(b, m, q)' => Old(b, m, q)
        BY <1>1, <2>2 DEF Old, Alive, Live
      <3>3. \A q \in Pids : proc'[q].node = m => proc'[q] = proc[q]
        BY <1>1, <2>2
      <3>4. InHand(b, m)' /\ Told(b, m)'
        BY <2>0, <3>1 DEF InHand, Told, ToSpawn
      <3>5. OldOnesEnded(b, m)'
        BY <2>0, <3>1, <3>2, <3>3 DEF OldOnesEnded, IsReady, ToSpawn
      <3> QED
        BY <3>4, <3>5
    <2>3. CASE b # c
      <3>1. ~Busy(b, m)
        BY <1>1, <1>2, <2>3, Zenon DEF OneAtATime
      <3>2. ~ToSpawn(b, m) /\ ~IsReady(b, m)
        BY <3>1, IdleFacts
      <3>3. script'[b][m] = script[b][m] /\ started'[b][m] = started[b][m]
        BY <1>3, <2>3
      <3>4. InHand(b, m)' /\ Told(b, m)'
        BY <2>0, <3>3 DEF InHand, Told, ToSpawn
      <3>5. OldOnesEnded(b, m)'
        BY <3>2, <3>3 DEF OldOnesEnded, IsReady, ToSpawn
      <3> QED
        BY <3>4, <3>5
    <2> QED
      BY <2>1, <2>2, <2>3
  <1> QED
    BY <1>9, <1>10, <1>11, <1>12, Zenon DEF Ordered

LEMMA ScriptInv ==
  ASSUME Inv, NEW c \in Commands, NEW n \in Nodes, ScriptStep(c, n), UNCHANGED scene
  PROVE  Inv'
  <1>1. UNCHANGED <<cmd, left, failed, orderly, cacheVars>>
    BY DEF ScriptStep
  <1>2. CASE Tame /\ Quieter
    <2>1. CacheTyped' /\ request' = request
      BY <1>1, SameCaches DEF Inv, Typed, cacheVars
    <2> QED
      BY <1>2, <2>1, TameInv
  <1>3. CASE \/ KillSession(c, n) \/ Terminate(c, n) \/ KillHard(c, n)
             \/ RemoveBinary(c, n) \/ CheckHealth(c, n) \/ StopByPidFile(c, n)
    BY <1>1, <1>2, <1>3, KillSessionTame, TerminateTame, KillHardTame, StopTame,
       HealthTame
  <1>4. CASE StartProcess(c, n) \/ StartSession(c, n)
    <2>1. /\ Launched(c, n) \/ NotLaunched(c, n)
          /\ UNCHANGED <<binary, pidfile, answerer>>
      BY <1>4, StartCases
    <2>2. CASE NotLaunched(c, n)
      BY <1>1, <1>2, <2>1, <2>2, NotLaunchedTame
    <2>3. CASE Launched(c, n)
      <3>1. PICK line \in Starters, kind \in {"lb", "proxy"}, how \in Hows :
              /\ Line(c, n, line) /\ Launching(c, line, kind, how) /\ Ran(c, n)
              /\ \E p \in Pids : /\ Born(n, kind, how, p)
                                 /\ started' = [started EXCEPT ![c][n] = p]
        BY <2>3 DEF Launched
      <3>2. PICK p \in Pids : /\ Born(n, kind, how, p)
                              /\ started' = [started EXCEPT ![c][n] = p]
        BY <3>1
      <3>3. LaunchFacts(c, n, line, kind, how, p)
        BY <3>1, <3>2, LaunchedFacts
      <3>4. Typed' /\ Linked' /\ OnePort' /\ AllFit'
        BY <1>1, <2>1, <3>3, LaunchedLinked
      <3>5. orderly' => Ordered'
        BY <1>1, <2>1, <3>3, LaunchedOrder
      <3> QED
        BY <3>4, <3>5 DEF Inv
    <2> QED
      BY <2>1, <2>2, <2>3
  <1> QED
    BY <1>3, <1>4 DEF ScriptStep

-----------------------------------------------------------------------------
(* The processes and the requests *)

LEMMA CalmInv ==
  ASSUME Inv, Calm, NodeTyped', CacheTyped', Linked', OnePort',
         UNCHANGED <<scene, commandVars>>
  PROVE  Inv'
  <1>1. CmdTyped'
    BY SameCommands DEF Inv, Typed
  <1>2. UNCHANGED <<cmd, left, script, started, answerer, orderly>>
    BY DEF commandVars
  <1>3. ASSUME NEW c \in Commands, NEW n \in Nodes
        PROVE  Moves(c, n) /\ Answers(c, n)
    <2>1. Fits(cmd[c], left[c][n], script[c][n]) /\ (orderly => InHand(c, n))
      BY CommandFacts
    <2> QED
      BY <1>2, <2>1 DEF Moves, Answers, ToSpawn, Busy, IsReady, InHand
  <1>4. Tame
    BY <1>1, <1>2, <1>3 DEF Tame
  <1>5. AllFit'
    BY <1>4, TameFits DEF Inv
  <1>6. orderly' => Ordered'
    BY <1>4, TameOrder
  <1>7. Typed'
    BY <1>1 DEF Inv, Typed
  <1> QED
    BY <1>5, <1>6, <1>7 DEF Inv

LEMMA EndInv ==
  ASSUME Inv, NEW p \in Pids, Stopped(p) \/ Crash(p), UNCHANGED scene
  PROVE  Inv'
  <1>1. /\ Alive(p) /\ proc' = Killed({p})
        /\ UNCHANGED <<binary, pidfile, commandVars, cacheVars>>
    BY DEF Stopped, Crash, Alive
  <1>2. Quieter
    BY <1>1, KilledQuieter DEF Inv
  <1>3. Calm /\ NodeTyped'
    BY <1>1, <1>2, QuietNode DEF Quieter, Inv, Typed, NodeTyped
  <1>4. CacheTyped' /\ request' = request
    BY <1>1, SameCaches DEF Inv, Typed, cacheVars
  <1>5. Linked' /\ OnePort'
    BY <1>2, <1>4, QuieterLinked
  <1> QED
    BY <1>1, <1>3, <1>4, <1>5, CalmInv

LEMMA ListenInv ==
  ASSUME Inv, NEW p \in Pids, ListenAndServe(p),
         UNCHANGED <<scene, binary, commandVars, cacheVars>>
  PROVE  Inv'
  <1>1. PICK st \in {"serving", "dead"} :
          /\ proc' = [proc EXCEPT ![p].st = st] /\ proc[p].st = "starting"
          /\ st = "serving" => Holders(proc[p].node) = {}
          /\ pidfile' = pidfile
    <2> DEFINE st == IF Holders(proc[p].node) = {} THEN "serving" ELSE "dead"
    <2>1. /\ proc' = [proc EXCEPT ![p].st = st] /\ proc[p].st = "starting"
          /\ pidfile' = pidfile
      BY DEF ListenAndServe
    <2>2. st \in {"serving", "dead"} /\ (st = "serving" => Holders(proc[p].node) = {})
      OBVIOUS
    <2> HIDE DEF st
    <2> QED
      BY <2>1, <2>2
  <1>2. proc \in [Pids -> Process0]
    BY DEF Inv, Typed, NodeTyped
  <1>3. /\ proc' \in [Pids -> Process0]
        /\ \A q \in Pids : q # p => proc'[q] = proc[q]
        /\ proc'[p].st = st /\ proc'[p].node = proc[p].node
        /\ proc'[p].kind = proc[p].kind /\ proc'[p].how = proc[p].how
    BY <1>1, <1>2 DEF Process0
  <1>4. Calm
    BY <1>1, <1>3 DEF Calm, Ages
  <1>5. NodeTyped'
    <2>1. binary' \in [Nodes -> {None, "partial", "noexec", "good"}]
      BY DEF Inv, Typed, NodeTyped
    <2> QED
      BY <1>4, <2>1, QuietNode DEF Inv
  <1>6. CacheTyped' /\ request' = request
    BY SameCaches DEF Inv, Typed, cacheVars
  <1>7. Linked'
    <2>1. Linked /\ Instances' = Instances
      BY DEF Inv, Instances
    <2>2. \A n \in Nodes, k \in {"lb", "proxy"} : pidfile[n][k] \in Pids \cup {None}
      BY DEF Inv, Typed, NodeTyped
    <2>3. \A q \in Pids :
            /\ proc'[q].node = proc[q].node /\ proc'[q].kind = proc[q].kind
            /\ proc'[q].how = proc[q].how /\ (proc'[q].st = "none" <=> proc[q].st = "none")
      BY <1>4, CalmFacts
    <2> QED
      BY <1>1, <1>6, <2>1, <2>2, <2>3 DEF Linked
  <1>8. OnePort'
    <2> SUFFICES ASSUME NEW a \in Pids, NEW b \in Pids, Holds(a)', Holds(b)',
                        proc'[a].node = proc'[b].node
                 PROVE  a = b
      BY DEF OnePort
    <2>1. \A q \in Pids : Holds(q)' => q = p \/ (Holds(q) /\ proc'[q] = proc[q])
      BY <1>3 DEF Holds
    <2>2. ASSUME NEW q \in Pids, Holds(p)', Holds(q), q # p,
                 proc[q].node = proc[p].node
          PROVE  FALSE
      <3>1. q \in Holders(proc[p].node) /\ st = "serving"
        BY <1>3, <2>2 DEF Holders, Holds
      <3> QED
        BY <1>1, <3>1
    <2> QED
      BY <1>3, <2>1, <2>2 DEF Inv, OnePort
  <1> QED
    BY <1>4, <1>5, <1>6, <1>7, <1>8, CalmInv

LEMMA WriteInv ==
  ASSUME Inv, NEW p \in Pids, WritePidFile(p),
         UNCHANGED <<scene, binary, commandVars, cacheVars>>
  PROVE  Inv'
  <1> DEFINE n == proc[p].node
             k == proc[p].kind
  <1>0. /\ proc[p].st = "loading" /\ proc' = [proc EXCEPT ![p].st = "starting"]
        /\ pidfile' = [pidfile EXCEPT ![n][k] = p]
    BY DEF WritePidFile
  <1>1. /\ proc \in [Pids -> Process0]
        /\ pidfile \in [Nodes -> [{"lb", "proxy"} -> Pids \cup {None}]]
    BY DEF Inv, Typed, NodeTyped
  <1>2. n \in Nodes /\ k \in {"lb", "proxy"}
    <2>1. n \in Instances /\ k # None
      BY <1>0 DEF Inv, Linked
    <2> QED
      BY <1>1, <2>1, SceneFacts DEF Process0, Inv
  <1>3. /\ proc' \in [Pids -> Process0]
        /\ \A q \in Pids : q # p => proc'[q] = proc[q]
        /\ proc'[p].st = "starting" /\ proc'[p].node = n
        /\ proc'[p].kind = k /\ proc'[p].how = proc[p].how
    BY <1>0, <1>1 DEF Process0
  <1> HIDE DEF n, k
  <1>4. /\ pidfile' \in [Nodes -> [{"lb", "proxy"} -> Pids \cup {None}]]
        /\ pidfile'[n][k] = p
        /\ \A m \in Nodes, j \in {"lb", "proxy"} :
             m # n \/ j # k => pidfile'[m][j] = pidfile[m][j]
    BY <1>0, <1>1, <1>2
  <1>5. Typed'
    <2>1. NodeTyped'
      BY <1>3, <1>4 DEF Inv, Typed, NodeTyped, Process0
    <2> QED
      BY <2>1, SameCommands, SameCaches DEF Inv, Typed
  <1>6. \A q \in Pids :
          /\ proc'[q].node = proc[q].node /\ proc'[q].kind = proc[q].kind
          /\ proc'[q].how = proc[q].how
          /\ (proc'[q].st = "none" <=> proc[q].st = "none")
          /\ (Holds(q)' <=> Holds(q)) /\ (Alive(q)' <=> Alive(q))
          /\ (Live(q)' <=> Live(q))
          /\ proc'[q].st = "loading" => proc[q].st = "loading" /\ q # p
    <2>1. ASSUME NEW q \in Pids, q # p PROVE proc'[q] = proc[q]
      BY <1>3, <2>1
    <2>2. /\ Alive(p)' /\ Alive(p) /\ ~Holds(p)' /\ ~Holds(p)
          /\ (Live(p)' <=> Live(p))
      BY <1>0, <1>3 DEF Alive, Holds, Live, k
    <2> QED
      BY <1>0, <1>3, <2>1, <2>2 DEF Alive, Holds, Live, n, k
  <1>7. Linked'
    <2>1. Linked /\ Instances' = Instances /\ request' = request
      BY DEF Inv, Instances, cacheVars
    <2>2. \A m \in Nodes, j \in {"lb", "proxy"} : pidfile[m][j] \in Pids \cup {None}
      BY <1>1
    <2> QED
      BY <1>2, <1>3, <1>4, <1>6, <2>1, <2>2 DEF Linked
  <1>8. OnePort'
    BY <1>6 DEF Inv, OnePort
  <1>9. UNCHANGED <<cmd, left, script, started, answerer, orderly>>
    BY DEF commandVars
  <1>10. AllFit'
    <2>1. AllFit
      BY DEF Inv
    <2>2. Modal' = Modal /\ Instances' = Instances
      BY DEF Modal, Instances
    <2>3. ASSUME NEW c \in Commands, NEW m \in Nodes
          PROVE  /\ Fits(cmd[c], left[c][m], script[c][m])'
                 /\ ToSpawn(c, m)' <=> ToSpawn(c, m)
                 /\ Busy(c, m)' <=> Busy(c, m)
      <3>1. Fits(cmd[c], left[c][m], script[c][m])
        BY <2>1 DEF AllFit
      <3> QED
        BY <1>9, <2>2, <3>1 DEF Fits, ToSpawn, Busy
    <2> QED
      BY <1>9, <2>1, <2>2, <2>3, Zenon DEF AllFit
  <1>11. ASSUME orderly PROVE Ordered'
    <2>1. Ordered
      BY <1>11 DEF Inv
    <2>2. OneAtATime'
      BY <1>9, <2>1 DEF Ordered, OneAtATime, Busy
    <2>3. Rivals'
      BY <1>6, <2>1 DEF Ordered, Rivals
    <2>4. Filed'
      <3> SUFFICES ASSUME NEW a \in Pids, proc'[a].kind = "lb",
                          proc'[a].st \in {"starting", "serving"}
                   PROVE  InFile(a)'
        BY DEF Filed
      <3>0. proc'[a].node \in Nodes
        <4>1. proc[a].st # "none"
          BY <1>6
        <4> QED
          BY <1>6, <4>1, SceneFacts DEF Inv, Linked
      <3>1. CASE a = p
        BY <1>3, <1>4, <3>1 DEF InFile
      <3>2. CASE a # p /\ proc'[a].node = n /\ k = "lb"
        <4>1. Live(a) /\ Live(p) /\ proc[p].st = "loading"
          BY <1>0, <1>3, <3>2 DEF Live, k
        <4>2. proc[p].how = "hand"
          BY <1>6, <2>1, <3>2, <4>1 DEF Ordered, Rivals, n
        <4>3. p # None
          BY SceneFacts DEF Inv
        <4> QED
          BY <1>3, <1>4, <3>2, <4>2, <4>3 DEF InFile
      <3>3. CASE a # p /\ (proc'[a].node # n \/ k # "lb")
        <4>1. proc'[a] = proc[a] /\ InFile(a)
          BY <1>3, <2>1, <3>3 DEF Ordered, Filed
        <4>2. pidfile'[proc[a].node]["lb"] = pidfile[proc[a].node]["lb"]
          BY <1>4, <3>0, <3>3, <4>1
        <4>3. pidfile[proc[a].node]["lb"] \in Pids \cup {None}
          BY <1>1, <3>0, <4>1
        <4> QED
          BY <1>6, <4>1, <4>2, <4>3 DEF InFile
      <3> QED
        BY <3>1, <3>2, <3>3
    <2>5. ASSUME NEW c \in Commands, NEW m \in Nodes
          PROVE  InHand(c, m)' /\ OldOnesEnded(c, m)' /\ Told(c, m)'
      <3>1. InHand(c, m) /\ OldOnesEnded(c, m) /\ Told(c, m)
        BY <2>1 DEF Ordered
      <3>2. InHand(c, m)' /\ Told(c, m)'
        BY <1>9, <3>1 DEF InHand, Told, ToSpawn
      <3>3. \A q \in Pids : Old(c, m, q)' => Old(c, m, q)
        BY <1>6, <1>9 DEF Old
      <3>4. OldOnesEnded(c, m)'
        BY <1>6, <1>9, <3>1, <3>3 DEF OldOnesEnded, IsReady, ToSpawn
      <3> QED
        BY <3>2, <3>4
    <2> QED
      BY <2>2, <2>3, <2>4, <2>5 DEF Ordered
  <1> QED
    BY <1>5, <1>7, <1>8, <1>9, <1>10, <1>11 DEF Inv

LEMMA RequestInv ==
  ASSUME Inv, UNCHANGED scene, NEW r \in Requests,
         \/ Cached(r) \/ InsertAfterAnswer(r)
         \/ \E p \in Pids, n \in Nodes : Submit(r, p, n)
  PROVE  Inv'
  <1>1. /\ request \in [Requests -> Requests0] /\ kv \in [Nodes -> BOOLEAN]
        /\ raced \subseteq Requests /\ Linked /\ NodeTyped
    BY DEF Inv, Typed, CacheTyped
  <1>2. CASE InsertAfterAnswer(r)
    <2> DEFINE lb == request[r].lb
               t == IF proc[lb].policy = "gorgo" THEN proc[lb].tree \cup {r}
                    ELSE proc[lb].tree
    <2>1. /\ request[r].st # "none" /\ proc' = [proc EXCEPT ![lb].tree = t]
          /\ request' = [request EXCEPT ![r].st = "done"]
          /\ raced' \in {raced, raced \cup {r}}
          /\ UNCHANGED <<binary, pidfile, commandVars, kv>>
      BY <1>2 DEF InsertAfterAnswer
    <2>2. lb \in Pids
      BY <1>1, <2>1 DEF Linked
    <2>3. t \in SUBSET Requests
      BY <1>1, <2>2 DEF NodeTyped, Process0
    <2> HIDE DEF lb, t
    <2>4. Quieter
      <3>1. Becomes(proc[lb], [proc[lb] EXCEPT !.tree = t])
        <4>1. proc[lb] \in Process0
          BY <1>1, <2>2 DEF NodeTyped
        <4>2. "gorgo" \in {"gorgo", "least-loaded"}
          OBVIOUS
        <4> QED
          BY <2>3, <4>1, <4>2, BecomesOther
      <3>2. proc' = [proc EXCEPT ![lb] = [proc[lb] EXCEPT !.tree = t]]
        BY <2>1
      <3> QED
        BY <2>1, <2>2, <3>1, <3>2, ChangedQuieter DEF Inv
    <2>5. Calm /\ NodeTyped'
      <3>1. binary' \in [Nodes -> {None, "partial", "noexec", "good"}]
        BY <1>1, <2>1 DEF NodeTyped
      <3> QED
        BY <2>4, <3>1, QuietNode DEF Quieter, Inv
    <2>6. CacheTyped'
      BY <1>1, <2>1 DEF CacheTyped, Requests0
    <2>7. Linked' /\ OnePort'
      <3>1. \A p \in Pids : /\ proc'[p].node = proc[p].node
                            /\ proc'[p].kind = proc[p].kind
                            /\ proc'[p].how = proc[p].how
                            /\ (proc'[p].st = "none" <=> proc[p].st = "none")
                            /\ (Holds(p)' => Holds(p))
        <4> TAKE p \in Pids
        <4>1. proc'[p].st = "serving" => proc[p].st = "serving"
          BY <2>4 DEF Quieter
        <4> QED
          BY <2>5, <4>1, CalmFacts DEF Holds
      <3>2. \A q \in Requests :
              /\ request'[q].lb = request[q].lb /\ request'[q].node = request[q].node
              /\ request'[q].st # "none" => request[q].st # "none"
        BY <1>1, <2>1 DEF Requests0
      <3>3. \A m \in Nodes, k \in {"lb", "proxy"} : pidfile[m][k] \in Pids \cup {None}
        BY <1>1 DEF NodeTyped
      <3>4. Instances' = Instances /\ pidfile' = pidfile
        BY <2>1 DEF Instances
      <3>5. Linked'
        BY <1>1, <3>1, <3>2, <3>3, <3>4 DEF Linked
      <3>6. OnePort'
        BY <3>1 DEF Inv, OnePort
      <3> QED
        BY <3>5, <3>6
    <2> QED
      BY <2>1, <2>5, <2>6, <2>7, CalmInv
  <1>3. CASE Cached(r) \/ \E p \in Pids, n \in Nodes : Submit(r, p, n)
    <2>1. UNCHANGED <<proc, pidfile, binary>> /\ UNCHANGED commandVars
      BY <1>3 DEF Cached, Submit, nodeVars
    <2>2. /\ request' \in [Requests -> Requests0] /\ kv' \in [Nodes -> BOOLEAN]
          /\ raced' = raced
          /\ \A q \in Requests : request'[q].st # "none" =>
               \/ /\ request[q].st # "none" /\ request'[q].lb = request[q].lb
                  /\ request'[q].node = request[q].node
               \/ /\ request'[q].lb \in Pids /\ request'[q].node \in Nodes
                  /\ proc[request'[q].lb].kind = "lb"
                  /\ proc[request'[q].lb].st # "none"
      <3>1. CASE Cached(r)
        BY <1>1, <3>1 DEF Cached, Requests0
      <3>2. CASE \E p \in Pids, n \in Nodes : Submit(r, p, n)
        BY <1>1, <3>2 DEF Submit, Requests0
      <3> QED
        BY <1>3, <3>1, <3>2
    <2>3. CacheTyped'
      BY <1>1, <2>2 DEF CacheTyped, Requests0
    <2>4. Calm /\ NodeTyped'
      <3>1. Quieter
        BY <2>1, SameQuieter DEF Inv
      <3>2. binary' \in [Nodes -> {None, "partial", "noexec", "good"}]
        BY <1>1, <2>1 DEF NodeTyped
      <3> QED
        BY <3>1, <3>2, QuietNode DEF Quieter, Inv
    <2>5. Linked'
      BY <1>1, <2>1, <2>2 DEF Linked, Instances
    <2>6. OnePort'
      BY <2>1 DEF Inv, OnePort, Holds
    <2> QED
      BY <2>1, <2>3, <2>4, <2>5, <2>6, CalmInv
  <1> QED
    BY <1>2, <1>3

LEMMA GivenPlan ==
  ASSUME NEW kind \in Known, NEW l, l = Plan(kind) \/ l = <<>>
  PROVE  /\ Fits(kind, l, <<>>) /\ ~Ready(kind, l, <<>>) /\ l \in Seq(Steps)
  <1>1. \A x : ~Has(<<>>, x)
    BY DEF Has
  <1>2. Planned(<<>>) /\ Written(<<>>)
    <2>1. Written(<<>>)
      BY DEF Written
    <2> QED
      BY <2>1, PlannedTuples
  <1>3. PlanFits(kind, l)
    <2>1. CASE l = <<>>
      BY <1>1, <1>2, <2>1 DEF PlanFits
    <2>2. CASE l = Plan(kind)
      BY <2>2, PlanFacts
    <2> QED
      BY <2>1, <2>2
  <1>4. ~Starting(<<>>) /\ ~Launches(<<>>)
    BY <1>1, Zenon DEF Starting, Launches
  <1>5. Fits(kind, l, <<>>)
    BY <1>1, <1>2, <1>3, <1>4, Zenon DEF Fits, PlanFits
  <1>6. ~Ready(kind, l, <<>>)
    BY <1>1, <1>3, <1>4, Zenon DEF Ready, PlanFits
  <1> QED
    BY <1>3, <1>5, <1>6 DEF PlanFits, Planned

LEMMA GiveInv ==
  ASSUME Inv, NEW c \in Commands, NEW kind \in Kinds, NEW n \in Nodes,
         Give(c, kind, n), UNCHANGED scene
  PROVE  Inv'
  <1> DEFINE f == [m \in Nodes |->
                    IF m = n \/ (m \in Instances /\ kind \notin OneNode)
                    THEN Plan(kind) ELSE <<>>]
  <1>1. /\ cmd[c] = None /\ n \in Instances
        /\ cmd' = [cmd EXCEPT ![c] = kind] /\ left' = [left EXCEPT ![c] = f]
        /\ orderly' = (orderly /\ Quiet)
        /\ UNCHANGED <<nodeVars, script, started, answerer, failed, cacheVars>>
    BY DEF Give
  <1>2. /\ \A m \in Nodes : (f[m] = Plan(kind) /\ m \in Instances) \/ f[m] = <<>>
        /\ f = [m \in Nodes |-> f[m]]
    BY <1>1
  <1> HIDE DEF f
  <1>3. kind \in Known /\ kind # None
    BY SceneFacts DEF Inv
  <1>4. \A m \in Nodes : /\ Fits(kind, f[m], <<>>) /\ ~Ready(kind, f[m], <<>>)
                         /\ f[m] \in Seq(Steps)
    BY <1>2, <1>3, GivenPlan
  <1>5. f \in [Nodes -> Seq(Steps)]
    BY <1>2, <1>4
  <1>6. /\ Linked /\ OnePort /\ AllFit /\ NodeTyped /\ CmdTyped /\ CacheTyped
        /\ orderly => Ordered
    BY DEF Inv, Typed
  <1>7. orderly' \in BOOLEAN
    BY <1>1
  <1>8. Typed'
    <2>1. CmdTyped'
      BY <1>1, <1>5, <1>6, <1>7 DEF CmdTyped
    <2>2. NodeTyped' /\ CacheTyped'
      BY <1>1, <1>6, SameNode, SameCaches
    <2> QED
      BY <2>1, <2>2 DEF Inv, Typed
  <1>9. Linked' /\ OnePort'
    BY <1>1, <1>6 DEF Linked, OnePort, Holds, Instances, nodeVars, cacheVars
  <1>10. /\ \A b \in Commands : cmd'[b] = IF b = c THEN kind ELSE cmd[b]
         /\ \A b \in Commands : left'[b] = IF b = c THEN f ELSE left[b]
         /\ script' = script /\ started' = started /\ answerer' = answerer
    BY <1>1, <1>6 DEF CmdTyped
  <1>11. \A m \in Nodes : /\ left[c][m] = <<>> /\ script[c][m] = <<>>
                          /\ started[c][m] = None /\ answerer[c][m] = None
    BY <1>1, <1>6 DEF AllFit, Busy
  <1>12. Instances' = Instances /\ Modal' = Modal
    BY DEF Instances, Modal
  <1>13. AllFit'
    <2> SUFFICES ASSUME NEW b \in Commands, NEW m \in Nodes
        PROVE  /\ Fits(cmd[b], left[b][m], script[b][m])'
               /\ ToSpawn(b, m)' => started'[b][m] = None
               /\ Busy(b, m)' => m \in Instances'
               /\ cmd'[b] = None => /\ ~Busy(b, m)' /\ started'[b][m] = None
                                    /\ answerer'[b][m] = None
      BY Zenon DEF AllFit
    <2>1. CASE b = c
      <3>1. Fits(kind, f[m], <<>>)
        BY <1>4
      <3>2. Fits(cmd[b], left[b][m], script[b][m])'
        BY <1>10, <1>11, <1>12, <2>1, <3>1 DEF Fits
      <3>3. Busy(b, m)' => m \in Instances'
        BY <1>2, <1>10, <1>11, <1>12, <2>1 DEF Busy
      <3> QED
        BY <1>3, <1>10, <1>11, <2>1, <3>2, <3>3
    <2>2. CASE b # c
      <3>1. /\ Fits(cmd[b], left[b][m], script[b][m])
            /\ ToSpawn(b, m) => started[b][m] = None
            /\ Busy(b, m) => m \in Instances
            /\ cmd[b] = None => /\ ~Busy(b, m) /\ started[b][m] = None
                                /\ answerer[b][m] = None
        BY <1>6, Zenon DEF AllFit
      <3>2. Fits(cmd[b], left[b][m], script[b][m])'
        BY <1>10, <1>12, <2>2, <3>1 DEF Fits
      <3> QED
        BY <1>10, <1>12, <2>2, <3>1, <3>2 DEF ToSpawn, Busy
    <2> QED
      BY <2>1, <2>2
  <1>14. ASSUME orderly' PROVE Ordered'
    <2>1. Ordered /\ Quiet
      BY <1>1, <1>6, <1>14
    <2>2. \A b \in Commands, m \in Nodes :
            /\ ~Busy(b, m) /\ script'[b][m] = <<>>
            /\ (Busy(b, m)' => b = c)
      BY <1>10, <2>1 DEF Quiet, Busy
    <2>3. OneAtATime'
      BY <2>2 DEF OneAtATime
    <2>4. Rivals' /\ Filed'
      BY <1>1, <2>1 DEF Ordered, Rivals, Filed, InFile, Live, nodeVars
    <2>5. ASSUME NEW b \in Commands, NEW m \in Nodes
          PROVE  InHand(b, m)' /\ OldOnesEnded(b, m)' /\ Told(b, m)'
      <3>0. InHand(b, m) /\ OldOnesEnded(b, m) /\ Told(b, m)
        BY <2>1 DEF Ordered
      <3>1. InHand(b, m)'
        BY <2>2 DEF InHand
      <3>2. \A p \in Pids : proc'[p].st # "loading"
        BY <1>1, <2>1 DEF Quiet, nodeVars
      <3>3. CASE b = c
        <4>1. ~IsReady(c, m)'
          BY <1>4, <1>10, <1>11 DEF IsReady
        <4>2. OldOnesEnded(c, m)'
          BY <3>2, <4>1 DEF OldOnesEnded
        <4>3. Told(c, m)'
          BY <1>10, <1>11 DEF Told
        <4> QED
          BY <3>1, <3>3, <4>2, <4>3
      <3>4. CASE b # c
        <4>1. ~ToSpawn(b, m) /\ ~IsReady(b, m)
          BY <2>2, IdleFacts
        <4>2. ~ToSpawn(b, m)' /\ ~IsReady(b, m)'
          BY <1>10, <3>4, <4>1 DEF ToSpawn, IsReady
        <4>3. OldOnesEnded(b, m)'
          BY <4>2 DEF OldOnesEnded
        <4>4. Told(b, m)'
          BY <1>10, <3>0, <3>4, <4>2 DEF Told
        <4> QED
          BY <3>1, <4>3, <4>4
      <3> QED
        BY <3>3, <3>4
    <2> QED
      BY <2>3, <2>4, <2>5 DEF Ordered
  <1> QED
    BY <1>8, <1>9, <1>13, <1>14 DEF Inv

LEMMA InitInv == Init => Inv
  <1> SUFFICES ASSUME Init PROVE Inv
    OBVIOUS
  <1>1. /\ DeployAssumption /\ scene \in Scenes
        /\ Runs = {n \in Instances : scene.runs[n] # None}
        /\ binary = [n \in Nodes |-> "good"]
        /\ proc = [p \in Pids |->
             IF p \in Runs
             THEN [Process(p, "lb", scene.runs[p]) EXCEPT !.st = "serving"]
             ELSE NoProcess]
        /\ pidfile = [n \in Nodes |->
             [k \in {"lb", "proxy"} |-> IF k = "lb" /\ n \in Runs THEN n ELSE None]]
        /\ request = [r \in Requests |-> [st |-> "none", lb |-> None, node |-> None]]
        /\ kv = [n \in Nodes |-> FALSE] /\ raced = {} /\ orderly = TRUE
        /\ cmd = [c \in Commands |-> None]
        /\ failed = [c \in Commands |-> FALSE]
    BY DeployAssumption DEF Init, Runs
  <1>2. /\ left = [c \in Commands |-> [n \in Nodes |-> <<>>]]
        /\ script = [c \in Commands |-> [n \in Nodes |-> <<>>]]
        /\ started = [c \in Commands |-> [n \in Nodes |-> None]]
        /\ answerer = [c \in Commands |-> [n \in Nodes |-> None]]
    BY DEF Init
  <1>3. /\ Instances \subseteq Nodes
        /\ \A n \in Runs : n \in Pids /\ n \in Instances /\ scene.runs[n] \in Hows
    BY <1>1 DEF DeployAssumption, Instances
  <1>4. \A p \in Pids :
          \/ /\ p \in Runs /\ proc[p] \in Process0 /\ proc[p].node = p
             /\ proc[p].kind = "lb" /\ proc[p].st = "serving"
             /\ proc[p].how \in Hows
          \/ /\ p \notin Runs /\ proc[p] \in Process0 /\ proc[p].st = "none"
             /\ proc[p].kind = None
    <2> TAKE p \in Pids
    <2>1. CASE p \in Runs
      <3>1. proc[p] = [Process(p, "lb", scene.runs[p]) EXCEPT !.st = "serving"]
        BY <1>1, <2>1
      <3> QED
        BY <1>3, <2>1, <3>1 DEF Process, NoProcess, Process0
    <2>2. CASE p \notin Runs
      <3>1. proc[p] = NoProcess
        BY <1>1, <2>2
      <3> QED
        BY <2>2, <3>1 DEF NoProcess, Process0
    <2> QED
      BY <2>1, <2>2
  <1>5. None \notin Hows /\ None # "lb" /\ None \notin Pids
    BY <1>1 DEF DeployAssumption
  <1>6. NodeTyped
    <2>1. proc \in [Pids -> Process0]
      BY <1>1, <1>4
    <2>2. pidfile \in [Nodes -> [{"lb", "proxy"} -> Pids \cup {None}]]
      BY <1>1, <1>3
    <2>3. binary \in [Nodes -> {None, "partial", "noexec", "good"}]
      BY <1>1
    <2> QED
      BY <2>1, <2>2, <2>3 DEF NodeTyped
  <1>7. CmdTyped
    BY <1>1, <1>2 DEF CmdTyped
  <1>8. CacheTyped
    BY <1>1 DEF CacheTyped, Requests0
  <1>9. Linked
    <2>1. \A n \in Nodes, k \in {"lb", "proxy"} :
            pidfile[n][k] # None => pidfile[n][k] = n /\ n \in Runs
      BY <1>1
    <2>2. \A r \in Requests : request[r].st = "none"
      BY <1>1
    <2>3. \A p \in Pids : proc[p].st # "none" =>
            /\ p \in Runs /\ proc[p].node = p /\ proc[p].kind = "lb"
            /\ proc[p].how \in Hows
      BY <1>4
    <2>4. \A p \in Runs : p \in Pids /\ proc[p].st = "serving"
      BY <1>3, <1>4
    <2> QED
      BY <1>3, <1>5, <2>1, <2>2, <2>3, <2>4 DEF Linked
  <1>10. OnePort
    BY <1>4 DEF OnePort, Holds
  <1>11. \A x : ~Has(<<>>, x)
    BY DEF Has
  <1>12. \A c \in Commands, n \in Nodes :
           /\ left[c][n] = <<>> /\ script[c][n] = <<>> /\ cmd[c] = None
           /\ started[c][n] = None /\ answerer[c][n] = None
    BY <1>1, <1>2
  <1>13. AllFit
    <2>1. Written(<<>>) /\ Planned(<<>>)
      <3>1. Written(<<>>)
        BY DEF Written
      <3> QED
        BY <3>1, PlannedTuples
    <2>2. ~Starting(<<>>)
      BY <1>11 DEF Starting
    <2>3. Fits(None, <<>>, <<>>)
      BY <1>11, <2>1, <2>2 DEF Fits
    <2> QED
      BY <1>12, <2>3 DEF AllFit, Busy
  <1>14. Ordered
    <2>1. OneAtATime
      BY <1>12 DEF OneAtATime, Busy
    <2>2. Rivals
      BY <1>4 DEF Rivals
    <2>3. Filed
      <3> SUFFICES ASSUME NEW p \in Pids, proc[p].st \in {"starting", "serving"}
                   PROVE  InFile(p)
        BY DEF Filed
      <3>1. p \in Runs /\ proc[p].node = p /\ p \in Nodes
        BY <1>3, <1>4
      <3>2. pidfile[p]["lb"] = p
        BY <1>1, <3>1
      <3> QED
        BY <3>1, <3>2 DEF InFile
    <2>4. ASSUME NEW c \in Commands, NEW n \in Nodes
          PROVE  InHand(c, n) /\ OldOnesEnded(c, n) /\ Told(c, n)
      <3>1. ~ToSpawn(c, n) /\ ~IsReady(c, n)
        BY <1>11, <1>12 DEF ToSpawn, Spawns, IsReady, Ready, Launches
      <3> QED
        BY <1>12, <3>1 DEF InHand, OldOnesEnded, Told
    <2> QED
      BY <2>1, <2>2, <2>3, <2>4 DEF Ordered
  <1> QED
    BY <1>1, <1>6, <1>7, <1>8, <1>9, <1>10, <1>13, <1>14 DEF Inv, Typed

LEMMA NextInv == Inv /\ [Next]_vars => Inv'
  <1> SUFFICES ASSUME Inv, [Next]_vars PROVE Inv'
    OBVIOUS
  <1>1. CASE UNCHANGED vars
    <2>1. UNCHANGED <<scene, nodeVars, commandVars, cacheVars>>
      BY <1>1 DEF vars
    <2>2. UNCHANGED <<proc, pidfile, binary>> /\ request' = request
      BY <2>1 DEF nodeVars, cacheVars
    <2>3. Quieter
      BY <2>2, SameQuieter DEF Inv
    <2>4. NodeTyped' /\ CacheTyped'
      BY <2>1, SameNode, SameCaches DEF Inv, Typed
    <2>5. Linked' /\ OnePort'
      BY <2>1, <2>2, <2>3, QuieterLinked
    <2> QED
      BY <2>1, <2>3, <2>4, <2>5, CalmInv DEF Quieter
  <1>2. CASE Next
    <2>0. UNCHANGED scene
      BY <1>2 DEF Next
    <2>1. CASE \E p \in Pids : LBStart(p) \/ ProxyStart(p) \/ Stopped(p) \/ Crash(p)
      BY <2>0, <2>1, WriteInv, ListenInv, EndInv DEF LBStart, ProxyStart
    <2>2. CASE \/ \E r \in Requests, p \in Pids, n \in Nodes : Submit(r, p, n)
               \/ \E r \in Requests : Cached(r) \/ InsertAfterAnswer(r)
      BY <2>0, <2>2, RequestInv
    <2>3. CASE \E c \in Commands, kind \in Kinds, n \in Nodes : Give(c, kind, n)
      BY <2>0, <2>3, GiveInv
    <2>4. CASE \/ \E c \in Commands : Interrupt(c) \/ UploadsEnd(c)
               \/ \E c \in Commands, n \in Nodes : CommandStep(c, n)
      BY <2>0, <2>4, CommandInv
    <2>5. CASE \E c \in Commands, n \in Nodes : ScriptStep(c, n)
      BY <2>0, <2>5, ScriptInv
    <2> QED
      BY <1>2, <2>1, <2>2, <2>3, <2>4, <2>5 DEF Next
  <1> QED
    BY <1>1, <1>2

\* The invariant: types, addresses that lead somewhere, one process at a port,
\* plans and scripts of the form the commands give them and, while no command
\* meets another, old processes ended before a new one is started.
THEOREM DeployInvariant == Spec => []Inv
  BY InitInv, NextInv, PTL DEF Spec

\* Every variable keeps its type; what a command started or was answered by is
\* a process.
THEOREM DeployTyped == Spec => []TypeOK
  <1>1. Inv => TypeOK
    BY TypedTypes DEF Inv
  <1> QED
    BY <1>1, DeployInvariant, PTL

\* cluster restart-lb and proxy deploy report success of the process they have
\* started, not of one that was there before (cmd/cluster.go, cmd/proxy.go).
THEOREM Successes == Spec => []SuccessIsOfTheNew
  <1>1. Inv => SuccessIsOfTheNew
    BY TypedTypes DEF Inv, Ordered, Told, SuccessIsOfTheNew
  <1> QED
    BY <1>1, DeployInvariant, PTL

\* The PID file that gotoni lb stop reads names the load balancer that serves, or
\* one that was started by hand beside it (cmd/lb.go).
THEOREM Stops == Spec => []StopFindsTheServer
  <1>1. Inv => StopFindsTheServer
    BY DEF Inv, Ordered, Filed, InFile, StopFindsTheServer
  <1> QED
    BY <1>1, DeployInvariant, PTL

-----------------------------------------------------------------------------
(* Caches *)

\* Somebody has still to clear the tree at n, or has failed to, or nobody has
\* been asked to.
Pending(n) ==
  \/ \A c \in Commands : cmd[c] # "flush"
  \/ \E c \in Commands : cmd[c] = "flush" /\ (failed[c] \/ left[c][n] # <<>>)

\* flush-cache has yet to flush and clear, or to clear, or nothing to do at a
\* node, and clears no tree before all servers are flushed.
FlushSteps(c) ==
  cmd[c] = "flush" =>
    /\ \A n \in Nodes :
         left[c][n] \in {<<>>, <<"clear">>, <<"flush", "clear">>}
    /\ ~failed[c] /\ (\E n \in Nodes : left[c][n] = <<"flush", "clear">>) =>
         \A n \in Instances : left[c][n] # <<>>

Fresh == {"none", "loading", "starting"}

\* A tree names a node whose server has no such prompt only as long as somebody
\* has still to clear it, or where the request was on its way during a flush.
FlushInv ==
  /\ \A c \in Commands : FlushSteps(c)
  /\ \A r \in Requests : request[r].st = "cached" =>
       kv[request[r].node] \/ r \in raced
  /\ \A p \in Pids : proc[p].st \in Fresh => proc[p].tree = {}
  /\ \A p \in Pids : Holds(p) => \A r \in proc[p].tree :
       /\ request[r].st = "done"
       /\ kv[request[r].node] \/ r \in raced \/ Pending(proc[p].node)

\* The tree of p names no more nodes than before, for the same reasons.
Stays(p) ==
  \/ proc'[p].tree = {}
  \/ /\ proc'[p].tree = proc[p].tree
     /\ proc'[p].st \in Fresh => proc[p].st \in Fresh
     /\ Holds(p)' =>
          Holds(p) /\ (Pending(proc[p].node) => Pending(proc[p].node)')

\* A step of processes that lets no tree grow.
LEMMA StaysFlush ==
  ASSUME FlushInv, UNCHANGED cacheVars, \A p \in Pids : Stays(p),
         \A c \in Commands : FlushSteps(c)',
         \A p \in Pids : proc'[p].tree # {} => proc'[p].node = proc[p].node
  PROVE  FlushInv'
  <1>1. UNCHANGED <<kv, request, raced>>
    BY DEF cacheVars
  <1>2. \A r \in Requests : request'[r].st = "cached" =>
          kv'[request'[r].node] \/ r \in raced'
    BY <1>1 DEF FlushInv
  <1>3. \A p \in Pids : proc'[p].st \in Fresh => proc'[p].tree = {}
    BY DEF FlushInv, Stays
  <1>4. ASSUME NEW p \in Pids, Holds(p)', NEW r \in proc'[p].tree
        PROVE  /\ request'[r].st = "done"
               /\ kv'[request'[r].node] \/ r \in raced' \/ Pending(proc[p].node)'
    <2>1. /\ Holds(p) /\ r \in proc[p].tree
          /\ Pending(proc[p].node) => Pending(proc[p].node)'
      BY <1>4 DEF Stays
    <2> QED
      BY <1>1, <1>4, <2>1 DEF FlushInv
  <1> QED
    BY <1>2, <1>3, <1>4 DEF FlushInv

LEMMA TreesKept ==
  ASSUME Typed, NEW ps, \/ proc' = proc \/ proc' = Killed(ps)
                        \/ proc' = Terminated(ps)
  PROVE  \A p \in Pids : proc'[p].tree = proc[p].tree
  <1>1. \A p \in Pids : proc[p] \in Process0
    BY DEF Typed, NodeTyped
  <1>2. \A p \in Pids : proc'[p] \in {proc[p], [proc[p] EXCEPT !.st = "dead"],
                                      [proc[p] EXCEPT !.st = "stopping"]}
    BY DEF Killed, Terminated
  <1> QED
    BY <1>1, <1>2 DEF Process0

\* All commands but c are where they were.
Aside(c) ==
  \A b \in Commands : b # c =>
    left'[b] = left[b] /\ failed'[b] = failed[b] /\ cmd'[b] = cmd[b]

LEMMA AsideFacts ==
  ASSUME FlushInv, UNCHANGED scene, NEW c, Aside(c)
  PROVE  /\ \A b \in Commands : b # c => FlushSteps(b)'
         /\ cmd[c] # "flush" /\ cmd'[c] # "flush" => \A p \in Pids : proc'[p].node = proc[p].node =>
              (Pending(proc[p].node) => Pending(proc[p].node)')
  <1>1. Instances' = Instances
    BY DEF Instances
  <1>2. ASSUME NEW b \in Commands, b # c PROVE FlushSteps(b)'
    <2>1. FlushSteps(b)
      BY DEF FlushInv
    <2>2. left'[b] = left[b] /\ failed'[b] = failed[b] /\ cmd'[b] = cmd[b]
      BY <1>2 DEF Aside
    <2> QED
      BY <1>1, <2>1, <2>2 DEF FlushSteps
  <1>3. ASSUME cmd[c] # "flush", cmd'[c] # "flush", NEW p \in Pids, proc'[p].node = proc[p].node,
               Pending(proc[p].node)
        PROVE  Pending(proc[p].node)'
    BY <1>3 DEF Pending, Aside
  <1> QED
    BY <1>2, <1>3

LEMMA QuietStays ==
  ASSUME Quieter, NEW p \in Pids, proc'[p].tree = proc[p].tree,
         Holds(p) /\ Pending(proc[p].node) => Pending(proc[p].node)'
  PROVE  Stays(p)
  <1>1. /\ Calm /\ Ages(proc[p].st, proc'[p].st)
        /\ proc'[p].st = "serving" => proc[p].st = "serving"
    BY DEF Quieter, Calm
  <1>2. proc'[p].st \in Fresh => proc[p].st \in Fresh
    BY <1>1 DEF Ages, Fresh
  <1>3. Holds(p)' => Holds(p)
    BY <1>1, CalmFacts DEF Holds
  <1> QED
    BY <1>2, <1>3 DEF Stays

LEMMA SameFlush ==
  ASSUME Inv, FlushInv, UNCHANGED <<scene, cmd, left, failed>>
  PROVE  /\ \A c \in Commands : FlushSteps(c)'
         /\ \A p \in Pids : proc'[p].node = proc[p].node =>
              (Pending(proc[p].node) => Pending(proc[p].node)')
  <1>1. Instances' = Instances
    BY DEF Instances
  <1>2. \A c \in Commands : FlushSteps(c)'
    BY <1>1 DEF FlushInv, FlushSteps
  <1> QED
    BY <1>2 DEF Pending

LEMMA ProcessFlush ==
  ASSUME Inv, FlushInv, UNCHANGED <<scene, commandVars, cacheVars>>,
         NEW p \in Pids,
         WritePidFile(p) \/ ListenAndServe(p) \/ Stopped(p) \/ Crash(p)
  PROVE  FlushInv'
  <1>1. /\ \A c \in Commands : FlushSteps(c)'
        /\ \A q \in Pids : proc'[q].node = proc[q].node =>
             (Pending(proc[q].node) => Pending(proc[q].node)')
    BY SameFlush DEF commandVars
  <1>2. proc \in [Pids -> Process0]
    BY DEF Inv, Typed, NodeTyped
  <1>3. CASE WritePidFile(p) \/ ListenAndServe(p)
    <2>1. PICK st : proc' = [proc EXCEPT ![p].st = st] /\ proc[p].st \in Fresh
      BY <1>3 DEF WritePidFile, ListenAndServe, Fresh
    <2>2. /\ \A q \in Pids : q # p => proc'[q] = proc[q]
          /\ proc'[p].tree = proc[p].tree /\ proc'[p].node = proc[p].node
      BY <1>2, <2>1 DEF Process0
    <2>3. proc'[p].tree = {}
      BY <2>1, <2>2 DEF FlushInv
    <2>4. ASSUME NEW q \in Pids
          PROVE  Stays(q) /\ proc'[q].node = proc[q].node
      BY <1>1, <2>2, <2>3 DEF Stays, Holds
    <2> QED
      BY <1>1, <2>4, StaysFlush
  <1>4. CASE Stopped(p) \/ Crash(p)
    <2>1. Alive(p) /\ proc' = Killed({p}) /\ pidfile' = pidfile
      BY <1>4 DEF Stopped, Crash, Alive
    <2>2. Quieter
      BY <2>1, KilledQuieter DEF Inv
    <2>3. \A q \in Pids : proc'[q].tree = proc[q].tree
      BY <2>1, TreesKept DEF Inv
    <2>4. \A q \in Pids : proc'[q].node = proc[q].node
      BY <2>2 DEF Quieter, Calm
    <2>5. \A q \in Pids : Stays(q)
      BY <1>1, <2>2, <2>3, <2>4, QuietStays
    <2> QED
      BY <1>1, <2>4, <2>5, StaysFlush
  <1> QED
    BY <1>3, <1>4

LEMMA RequestFlush ==
  ASSUME Inv, FlushInv, UNCHANGED scene, NEW r \in Requests,
         \/ Cached(r) \/ InsertAfterAnswer(r)
         \/ \E p \in Pids, n \in Nodes : Submit(r, p, n)
  PROVE  FlushInv'
  <1>1. /\ request \in [Requests -> Requests0] /\ kv \in [Nodes -> BOOLEAN]
        /\ proc \in [Pids -> Process0] /\ Linked
    BY DEF Inv, Typed, CacheTyped, NodeTyped
  <1>2. UNCHANGED commandVars /\ raced \subseteq raced'
    BY DEF Cached, InsertAfterAnswer, Submit
  <1>3. /\ \A c \in Commands : FlushSteps(c)'
        /\ \A q \in Pids : proc'[q].node = proc[q].node =>
             (Pending(proc[q].node) => Pending(proc[q].node)')
    BY <1>2, SameFlush DEF commandVars
  <1>4. /\ \A q \in Requests : request[q].st = "cached" =>
             kv[request[q].node] \/ q \in raced
        /\ \A p \in Pids : proc[p].st \in Fresh => proc[p].tree = {}
        /\ \A p \in Pids : Holds(p) => \A q \in proc[p].tree :
             /\ request[q].st = "done"
             /\ kv[request[q].node] \/ q \in raced \/ Pending(proc[p].node)
    BY DEF FlushInv
  <1>5. \A p \in Pids : proc[p].tree \subseteq Requests
    BY <1>1 DEF Process0
  \* Of the requests only r changes, and a server loses no prompt.
  <1>6. SUFFICES
          /\ \A q \in Requests : q # r => request'[q] = request[q]
          /\ request[r].st # "done"
          /\ \A n \in Nodes : kv[n] => kv'[n]
          /\ request'[r].st = "cached" => kv'[request'[r].node] \/ r \in raced'
          /\ \A p \in Pids :
               /\ proc'[p].st = proc[p].st /\ proc'[p].node = proc[p].node
               /\ \/ proc'[p].tree = proc[p].tree
                  \/ /\ proc'[p].tree = proc[p].tree \cup {r}
                     /\ proc[p].st \notin Fresh /\ request'[r].st = "done"
                     /\ \/ kv'[request'[r].node] \/ r \in raced'
                        \/ Pending(proc[p].node)'
    <2>0. \A q \in Requests : request[q].st # "none" => request[q].node \in Nodes
      BY <1>1 DEF Linked
    <2>1. \A q \in Requests : request'[q].st = "cached" =>
            kv'[request'[q].node] \/ q \in raced'
      <3> TAKE q \in Requests
      <3>1. CASE q = r
        BY <1>2, <1>6, <3>1
      <3>2. CASE q # r
        BY <1>2, <1>4, <1>6, <2>0, <3>2
      <3> QED
        BY <3>1, <3>2
    <2>2. \A p \in Pids : proc'[p].st \in Fresh => proc'[p].tree = {}
      BY <1>4, <1>6
    <2>3. ASSUME NEW p \in Pids, Holds(p)', NEW q \in proc'[p].tree
          PROVE  /\ request'[q].st = "done"
                 /\ kv'[request'[q].node] \/ q \in raced' \/ Pending(proc[p].node)'
      <3>1. Holds(p)
        BY <1>6, <2>3 DEF Holds
      <3>2. CASE q \in proc[p].tree
        <4>1. /\ request[q].st = "done" /\ q \in Requests /\ q # r
              /\ kv[request[q].node] \/ q \in raced \/ Pending(proc[p].node)
          BY <1>4, <1>5, <1>6, <3>1, <3>2
        <4>2. request'[q] = request[q] /\ request[q].node \in Nodes
          BY <1>6, <2>0, <4>1
        <4> QED
          BY <1>2, <1>3, <1>6, <4>1, <4>2
      <3>3. CASE q \notin proc[p].tree
        <4>1. /\ q = r /\ request'[r].st = "done"
              /\ \/ kv'[request'[r].node] \/ r \in raced'
                 \/ Pending(proc[p].node)'
          BY <1>6, <2>3, <3>3
        <4> QED
          BY <4>1
      <3> QED
        BY <3>2, <3>3
    <2> QED
      BY <1>3, <2>1, <2>2, <2>3 DEF FlushInv
  <1>7. CASE Cached(r)
    <2>1. /\ request[r].st = "sent" /\ kv' = [kv EXCEPT ![request[r].node] = TRUE]
          /\ request' = [request EXCEPT ![r].st = "cached"] /\ proc' = proc
      BY <1>7 DEF Cached, nodeVars
    <2>2. request[r].node \in Nodes
      BY <1>1, <2>1 DEF Linked
    <2>3. request'[r].node = request[r].node
      BY <1>1, <2>1 DEF Requests0
    <2> QED
      BY <1>1, <2>1, <2>2, <2>3
  <1>8. CASE InsertAfterAnswer(r)
    <2> DEFINE lb == request[r].lb
               t == IF proc[lb].policy = "gorgo" THEN proc[lb].tree \cup {r}
                    ELSE proc[lb].tree
    <2>1. /\ request[r].st \in {"sent", "cached"}
          /\ proc' = [proc EXCEPT ![lb].tree = t]
          /\ request' = [request EXCEPT ![r].st = "done"]
          /\ kv' = kv /\ Holds(lb)
          /\ request[r].st = "sent" /\ ClearedAt(proc[lb].node) => r \in raced'
      BY <1>8 DEF InsertAfterAnswer
    <2>0. \A n : Pending(n) \/ ClearedAt(n)
      BY DEF Pending, ClearedAt
    <2>2. lb \in Pids
      BY <1>1, <2>1 DEF Linked
    <2>3. t = proc[lb].tree \/ t = proc[lb].tree \cup {r}
      OBVIOUS
    <2> HIDE DEF lb, t
    <2>4. /\ \A p \in Pids : p # lb => proc'[p] = proc[p]
          /\ proc'[lb].tree = t /\ proc'[lb].st = proc[lb].st
          /\ proc'[lb].node = proc[lb].node
      BY <1>1, <2>1, <2>2 DEF Process0
    <2>5. request'[r].node = request[r].node /\ request'[r].st = "done"
      BY <1>1, <2>1 DEF Requests0
    <2>6. proc[lb].st \notin Fresh
      BY <2>1 DEF Holds, Fresh
    <2>7. \A p \in Pids : p = lb =>
            \/ kv'[request'[r].node] \/ r \in raced'
            \/ Pending(proc[p].node)'
      BY <1>2, <1>3, <1>4, <2>0, <2>1, <2>4, <2>5
    <2> QED
      BY <1>1, <2>1, <2>2, <2>3, <2>4, <2>5, <2>6, <2>7
  <1>9. CASE \E p \in Pids, n \in Nodes : Submit(r, p, n)
    <2>1. /\ request[r].st = "none" /\ proc' = proc /\ kv' = kv
          /\ \A q \in Requests : q # r => request'[q] = request[q]
          /\ request'[r].st = "sent"
      BY <1>1, <1>9 DEF Submit, nodeVars
    <2> QED
      BY <2>1
  <1> QED
    BY <1>7, <1>8, <1>9

LEMMA SameProcFlush ==
  ASSUME FlushInv, UNCHANGED <<proc, cacheVars>>,
         \A c \in Commands : FlushSteps(c)',
         \A p \in Pids : Holds(p) => (Pending(proc[p].node) => Pending(proc[p].node)')
  PROVE  FlushInv'
  <1>1. \A p \in Pids : Stays(p) /\ proc'[p].node = proc[p].node
    BY DEF Stays, Holds
  <1> QED
    BY <1>1, StaysFlush

LEMMA GiveFlush ==
  ASSUME Inv, FlushInv, NEW c \in Commands, NEW kind \in Kinds, NEW n \in Nodes,
         Give(c, kind, n), UNCHANGED scene
  PROVE  FlushInv'
  <1> DEFINE f == [m \in Nodes |->
                    IF m = n \/ (m \in Instances /\ kind \notin OneNode)
                    THEN Plan(kind) ELSE <<>>]
  <1>1. /\ cmd[c] = None /\ n \in Instances
        /\ cmd' = [cmd EXCEPT ![c] = kind] /\ left' = [left EXCEPT ![c] = f]
        /\ UNCHANGED <<nodeVars, script, started, answerer, failed, cacheVars>>
    BY DEF Give
  <1>2. /\ \A m \in Nodes : f[m] = Plan(kind) \/ f[m] = <<>>
        /\ kind = "flush" => \A m \in Instances : f[m] = <<"flush", "clear">>
    <2>1. Plan("flush") = <<"flush", "clear">> /\ "flush" \notin OneNode
      BY DEF Plan, PolicyKinds, FlushPlan, OneNode
    <2>2. Instances \subseteq Nodes
      BY SceneFacts DEF Inv
    <2> QED
      BY <2>1, <2>2
  <1> HIDE DEF f
  <1>3. cmd \in [Commands -> Kinds \cup {None}] /\ DOMAIN left = Commands
    BY DEF Inv, Typed, CmdTyped
  <1>4. Aside(c) /\ cmd'[c] = kind /\ left'[c] = f
    BY <1>1, <1>3 DEF Aside
  <1>5. cmd[c] # "flush"
    <2>1. "flush" \in Known
      BY DEF Known
    <2> QED
      BY <1>1, <2>1, SceneFacts DEF Inv
  <1>6. proc' = proc /\ Instances' = Instances /\ UNCHANGED cacheVars
    BY <1>1 DEF nodeVars, Instances
  <1>7. FlushSteps(c)'
    <2>1. Plan("flush") = <<"flush", "clear">>
      BY DEF Plan, PolicyKinds, FlushPlan
    <2>2. <<"flush", "clear">> # <<>>
      OBVIOUS
    <2>3. /\ cmd'[c] = kind
          /\ \A m \in Nodes : left'[c][m] = f[m]
          /\ \A m \in Instances' : left'[c][m] = f[m] /\ m \in Instances
      BY <1>4, <1>6
    <2> QED
      BY <1>2, <2>1, <2>2, <2>3 DEF FlushSteps
  <1>8. \A b \in Commands : FlushSteps(b)'
    BY <1>4, <1>7, AsideFacts
  <1>9. ASSUME NEW p \in Pids, Holds(p), Pending(proc[p].node)
        PROVE  Pending(proc[p].node)'
    <2>1. CASE kind # "flush"
      BY <1>4, <1>5, <1>6, <1>9, <2>1, AsideFacts
    <2>2. CASE kind = "flush"
      <3>1. proc[p].node \in Instances
        BY <1>9 DEF Inv, Linked, Holds
      <3>2. left'[c][proc[p].node] = <<"flush", "clear">>
        BY <1>2, <1>4, <2>2, <3>1
      <3>3. <<"flush", "clear">> # <<>>
        OBVIOUS
      <3> QED
        BY <1>4, <1>6, <2>2, <3>2, <3>3 DEF Pending
    <2> QED
      BY <2>1, <2>2
  <1> QED
    BY <1>6, <1>8, <1>9, SameProcFlush

LEMMA InterruptFlush ==
  ASSUME Inv, FlushInv, NEW c \in Commands, Interrupt(c) \/ UploadsEnd(c),
         UNCHANGED scene
  PROVE  FlushInv'
  <1>1. /\ cmd' = cmd /\ proc' = proc /\ UNCHANGED cacheVars
        /\ \E f : left' = [left EXCEPT ![c] = f]
        /\ failed' \in {failed, [failed EXCEPT ![c] = TRUE]}
    BY DEF Interrupt, UploadsEnd, nodeVars
  <1>2. DOMAIN left = Commands /\ failed \in [Commands -> BOOLEAN]
    BY DEF Inv, Typed, CmdTyped
  <1>3. Aside(c)
    BY <1>1, <1>2 DEF Aside
  <1>4. Instances' = Instances
    BY DEF Instances
  <1>5. /\ FlushSteps(c)'
        /\ cmd[c] = "flush" => \A n : Pending(n) => Pending(n)'
    <2>1. CASE cmd[c] # "flush"
      BY <1>1, <2>1 DEF FlushSteps
    <2>2. CASE cmd[c] = "flush" /\ Interrupt(c)
      <3>1. /\ left'[c] = [n \in Nodes |-> <<>>] /\ failed'[c] = TRUE
        BY <1>2, <2>2 DEF Interrupt
      <3>2. FlushSteps(c)'
        BY <3>1 DEF FlushSteps
      <3>3. \A n : Pending(n)'
        BY <1>1, <2>2, <3>1 DEF Pending
      <3> QED
        BY <3>2, <3>3
    <2>3. CASE cmd[c] = "flush" /\ UploadsEnd(c)
      <3>1. PICK n \in Nodes : At(c, n, "failed")
        BY <2>3 DEF UploadsEnd
      <3>2. left[c][n] \in {<<>>, <<"clear">>, <<"flush", "clear">>}
        BY <2>3 DEF FlushInv, FlushSteps
      <3>3. FALSE
        BY <3>1, <3>2 DEF At
      <3> QED
        BY <3>3
    <2> QED
      BY <2>1, <2>2, <2>3
  <1>6. /\ \A b \in Commands : FlushSteps(b)'
        /\ \A p \in Pids : Pending(proc[p].node) => Pending(proc[p].node)'
    BY <1>1, <1>3, <1>5, AsideFacts
  <1> QED
    BY <1>1, <1>6, SameProcFlush

\* What the steps of commands other than flush change.
LEMMA StepAside ==
  ASSUME Inv, NEW c \in Commands, NEW n \in Nodes, CommandStep(c, n)
  PROVE  /\ cmd' = cmd
         /\ Aside(c)
         /\ ~Flush(c, n) => UNCHANGED cacheVars
         /\ Clear(c, n) \/ SetPolicy(c, n) \/ proc' = proc
  <1>1. DOMAIN left = Commands /\ failed \in [Commands -> BOOLEAN]
    BY DEF Inv, Typed, CmdTyped
  <1>2. /\ cmd' = cmd /\ (Clear(c, n) \/ SetPolicy(c, n) \/ proc' = proc)
        /\ ~Flush(c, n) => UNCHANGED cacheVars
    BY DEF CommandStep, ClusterConnect, UploadToCluster, Connect, RunScript,
       ScriptEnds, ScriptLost, Upload, Chmod, Verify, Clear, SetPolicy, Flush,
       nodeVars
  <1>3. failed' \in {failed, [failed EXCEPT ![c] = TRUE]}
    BY DEF CommandStep, ClusterConnect, UploadToCluster, Connect, RunScript,
       ScriptEnds, ScriptLost, Upload, Chmod, Verify, Clear, SetPolicy, Flush, Drop
  <1>4. \A b \in Commands : b # c => left'[b] = left[b]
    <2>1. CASE Through(c, n) \/ Drop(c, n)
      BY <1>1, <2>1 DEF Through, Drop
    <2>2. CASE \E l : left' = [left EXCEPT ![c][n] = l]
      BY <1>1, <2>2
    <2>3. Through(c, n) \/ Drop(c, n) \/ \E l : left' = [left EXCEPT ![c][n] = l]
      BY DEF CommandStep, ClusterConnect, UploadToCluster, Connect, RunScript,
         ScriptEnds, ScriptLost, Upload, Chmod, Verify, Clear, SetPolicy, Flush
    <2> QED
      BY <2>1, <2>2, <2>3
  <1> QED
    BY <1>1, <1>2, <1>3, <1>4 DEF Aside

LEMMA ClearedTrees ==
  ASSUME Inv, NEW c \in Commands, NEW n \in Nodes, Clear(c, n) \/ SetPolicy(c, n)
  PROVE  \/ proc' = proc /\ Drop(c, n)
         \/ \A p \in Pids :
              /\ p # PortHolder(n) => proc'[p] = proc[p]
              /\ p = PortHolder(n) => proc'[p].tree = {}
              /\ proc'[p].node = proc[p].node
  <1> DEFINE q == PortHolder(n)
  <1>1. \/ proc' = proc /\ Drop(c, n)
        \/ q # None /\ \/ proc' = [proc EXCEPT ![q].tree = {}]
                       \/ \E x : proc' = [proc EXCEPT ![q] =
                                   [@ EXCEPT !.tree = {}, !.policy = x]]
    BY DEF Clear, SetPolicy
  <1>2. q # None => q \in Pids
    BY PortFacts
  <1> HIDE DEF q
  <1>3. proc \in [Pids -> Process0]
    BY DEF Inv, Typed, NodeTyped
  <1>4. CASE q # None /\ proc' = [proc EXCEPT ![q].tree = {}]
    BY <1>2, <1>3, <1>4 DEF q, Process0
  <1>5. CASE q # None /\ \E x : proc' = [proc EXCEPT ![q] =
                                   [@ EXCEPT !.tree = {}, !.policy = x]]
    <2>1. PICK x : proc' = [proc EXCEPT ![q] = [proc[q] EXCEPT !.tree = {}, !.policy = x]]
      BY <1>5
    <2>2. proc[q] \in Process0
      BY <1>2, <1>3, <1>5
    <2> QED
      BY <1>2, <1>3, <1>5, <2>1, <2>2 DEF q, Process0
  <1> QED
    BY <1>1, <1>4, <1>5

LEMMA OtherFlush ==
  ASSUME Inv, FlushInv, NEW c \in Commands, NEW n \in Nodes, CommandStep(c, n),
         UNCHANGED scene, cmd[c] # "flush"
  PROVE  FlushInv'
  <1>1. ~Flush(c, n)
    <2>1. /\ left[c][n] \in Seq(Steps) /\ Fits(cmd[c], left[c][n], script[c][n])
      BY CommandFacts
    <2>2. left[c][n] # <<>> /\ Head(left[c][n]) = "flush" => Has(left[c][n], "flush")
      BY <2>1, HasInTail
    <2> QED
      BY <2>1, <2>2 DEF Flush, At, Fits
  <1>2. /\ cmd' = cmd /\ Aside(c) /\ UNCHANGED cacheVars
        /\ Clear(c, n) \/ SetPolicy(c, n) \/ proc' = proc
    BY <1>1, StepAside
  <1>3. /\ \A b \in Commands : b # c => FlushSteps(b)'
        /\ \A p \in Pids : proc'[p].node = proc[p].node =>
             (Pending(proc[p].node) => Pending(proc[p].node)')
    BY <1>2, AsideFacts
  <1>4. \A b \in Commands : FlushSteps(b)'
    <2>1. FlushSteps(c)'
      BY <1>2 DEF FlushSteps
    <2> QED
      BY <1>3, <2>1
  <1>5. CASE proc' = proc
    BY <1>2, <1>3, <1>4, <1>5, SameProcFlush
  <1>6. CASE \A p \in Pids : /\ p # PortHolder(n) => proc'[p] = proc[p]
                             /\ p = PortHolder(n) => proc'[p].tree = {}
                             /\ proc'[p].node = proc[p].node
    <2>1. ASSUME NEW p \in Pids PROVE Stays(p)
      BY <1>3, <1>6 DEF Stays, Holds
    <2> QED
      BY <1>2, <1>4, <1>6, <2>1, StaysFlush
  <1> QED
    BY <1>2, <1>5, <1>6, ClearedTrees

LEMMA ClearFlush ==
  ASSUME Inv, FlushInv, NEW c \in Commands, NEW n \in Nodes, Clear(c, n),
         UNCHANGED scene, cmd[c] = "flush"
  PROVE  FlushInv'
  <1>0. CommandStep(c, n) /\ ~Flush(c, n)
    BY DEF CommandStep, Clear, Flush, At
  <1>1. /\ cmd' = cmd /\ Aside(c) /\ UNCHANGED cacheVars
        /\ \A b \in Commands : b # c => FlushSteps(b)'
    BY <1>0, StepAside, AsideFacts
  <1>2. /\ \A m \in Nodes : left[c][m] \in {<<>>, <<"clear">>, <<"flush", "clear">>}
        /\ At(c, n, "clear") /\ AllPast(c, "flush")
    BY DEF FlushInv, FlushSteps, Clear
  <1>3. /\ left \in [Commands -> [Nodes -> Seq(Steps)]]
        /\ failed \in [Commands -> BOOLEAN]
    BY DEF Inv, Typed, CmdTyped
  <1>4. left[c][n] = <<"clear">>
    BY <1>2 DEF At
  <1>5. \A m \in Nodes : left[c][m] # <<"flush", "clear">>
    <2>1. "flush" \in Range(<<"flush", "clear">>)
      BY DEF Range
    <2> QED
      BY <1>2, <2>1 DEF AllPast
  <1>6. left' = [left EXCEPT ![c][n] = <<>>]
    BY <1>4 DEF Clear, Through, Drop
  <1>7. \A m \in Nodes : left'[c][m] = IF m = n THEN <<>> ELSE left[c][m]
    BY <1>3, <1>6
  <1>8. FlushSteps(c)'
    <2>1. \A m \in Nodes : left'[c][m] \in {<<>>, <<"clear">>}
      BY <1>2, <1>5, <1>7
    <2>2. <<"flush", "clear">> \notin {<<>>, <<"clear">>}
      OBVIOUS
    <2> QED
      BY <2>1, <2>2 DEF FlushSteps
  <1>9. failed[c] => failed'[c]
    BY <1>3 DEF Clear, Drop
  <1>10. ASSUME NEW p \in Pids, proc'[p].node = proc[p].node, Pending(proc[p].node),
                proc[p].node # n \/ failed'[c]
         PROVE  Pending(proc[p].node)'
    <2>1. PICK b \in Commands :
            cmd[b] = "flush" /\ (failed[b] \/ left[b][proc[p].node] # <<>>)
      BY <1>10 DEF Pending
    <2>2. CASE b # c
      BY <1>1, <1>10, <2>1, <2>2 DEF Aside, Pending
    <2>3. CASE b = c /\ failed'[c]
      BY <1>1, <2>1, <2>3 DEF Pending
    <2>4. CASE b = c /\ proc[p].node # n
      <3>1. left'[c][proc[p].node] = left[c][proc[p].node]
        BY <1>3, <1>6, <2>4
      <3> QED
        BY <1>1, <1>9, <1>10, <2>1, <2>4, <3>1 DEF Pending
    <2> QED
      BY <1>10, <2>2, <2>3, <2>4
  <1>11. CASE proc' = proc /\ Drop(c, n)
    <2>1. failed'[c]
      BY <1>3, <1>11 DEF Drop
    <2>2. \A p \in Pids : Pending(proc[p].node) => Pending(proc[p].node)'
      BY <1>10, <1>11, <2>1
    <2>3. \A b \in Commands : FlushSteps(b)'
      BY <1>1, <1>8
    <2> QED
      BY <1>1, <1>11, <2>2, <2>3, SameProcFlush
  <1>12. CASE \A p \in Pids : /\ p # PortHolder(n) => proc'[p] = proc[p]
                              /\ p = PortHolder(n) => proc'[p].tree = {}
                              /\ proc'[p].node = proc[p].node
    <2>1. ASSUME NEW p \in Pids, p # PortHolder(n), Holds(p)
          PROVE  proc[p].node # n
      <3>1. ASSUME proc[p].node = n PROVE FALSE
        <4>1. p \in Holders(n)
          BY <2>1, <3>1 DEF Holders
        <4>2. PortHolder(n) \in Holders(n)
          BY <4>1, PortFacts
        <4>3. OnePort
          BY DEF Inv
        <4> QED
          BY <2>1, <4>1, <4>2, <4>3 DEF OnePort, Holders
      <3> QED
        BY <3>1
    <2>2. ASSUME NEW p \in Pids PROVE Stays(p)
      BY <1>10, <1>12, <2>1 DEF Stays, Holds
    <2>3. \A b \in Commands : FlushSteps(b)'
      BY <1>1, <1>8
    <2> QED
      BY <1>1, <1>12, <2>2, <2>3, StaysFlush
  <1> QED
    BY <1>11, <1>12, ClearedTrees

LEMMA PairTail ==
  ASSUME NEW a, NEW b
  PROVE  Tail(<<a, b>>) = <<b>>
  OBVIOUS

LEMMA FlushFlush ==
  ASSUME Inv, FlushInv, NEW c \in Commands, NEW n \in Nodes, Flush(c, n),
         UNCHANGED scene, cmd[c] = "flush"
  PROVE  FlushInv'
  <1>1. /\ cmd' = cmd /\ Aside(c) /\ proc' = proc /\ request' = request
        /\ \A b \in Commands : b # c => FlushSteps(b)'
    <2>1. CommandStep(c, n)
      BY DEF CommandStep
    <2>2. proc' = proc /\ request' = request
      BY DEF Flush, nodeVars
    <2> QED
      BY <2>1, <2>2, StepAside, AsideFacts
  <1>2. /\ FlushSteps(c) /\ At(c, n, "flush") /\ Through(c, n)
        /\ \A m \in Nodes : left[c][m] \in {<<>>, <<"clear">>, <<"flush", "clear">>}
    BY DEF FlushInv, FlushSteps, Flush
  <1>3. /\ left \in [Commands -> [Nodes -> Seq(Steps)]]
        /\ failed \in [Commands -> BOOLEAN] /\ kv \in [Nodes -> BOOLEAN]
        /\ request \in [Requests -> Requests0] /\ proc \in [Pids -> Process0]
        /\ Linked
    BY DEF Inv, Typed, CmdTyped, CacheTyped, NodeTyped
  <1>4. left[c][n] = <<"flush", "clear">> /\ Tail(left[c][n]) = <<"clear">>
    <2>1. Head(<<"clear">>) # "flush"
      OBVIOUS
    <2>2. left[c][n] = <<"flush", "clear">>
      BY <1>2, <2>1 DEF At
    <2>3. Tail(<<"flush", "clear">>) = <<"clear">>
      BY PairTail, Zenon
    <2> QED
      BY <2>2, <2>3
  <1>5. left' = [left EXCEPT ![c][n] = <<"clear">>]
    BY <1>2, <1>4 DEF Through
  <1>6. \A m \in Nodes : left'[c][m] = IF m = n THEN <<"clear">> ELSE left[c][m]
    BY <1>3, <1>5
  <1>7. Instances' = Instances /\ Instances \subseteq Nodes
    BY SceneFacts DEF Instances, Inv
  <1>8. failed[c] => failed'[c]
    BY <1>3 DEF Flush
  <1>9. FlushSteps(c)'
    <2>1. <<"clear">> # <<>> /\ <<"clear">> # <<"flush", "clear">>
      OBVIOUS
    <2>2. ~failed'[c] => \A m \in Instances : left'[c][m] # <<>>
      BY <1>2, <1>4, <1>6, <1>7, <1>8, <2>1 DEF FlushSteps
    <2>3. \A m \in Nodes : left'[c][m] \in {<<>>, <<"clear">>, <<"flush", "clear">>}
      BY <1>2, <1>6
    <2> QED
      BY <1>7, <2>2, <2>3 DEF FlushSteps
  <1>10. \A p \in Pids : Pending(proc[p].node) => Pending(proc[p].node)'
    <2> SUFFICES ASSUME NEW p \in Pids, Pending(proc[p].node)
                 PROVE  Pending(proc[p].node)'
      OBVIOUS
    <2>1. PICK b \in Commands :
            cmd[b] = "flush" /\ (failed[b] \/ left[b][proc[p].node] # <<>>)
      BY DEF Pending
    <2>2. CASE b # c
      BY <1>1, <2>1, <2>2 DEF Aside, Pending
    <2>3. CASE b = c
      <3>1. left[c][proc[p].node] # <<>> => left'[c][proc[p].node] # <<>>
        BY <1>3, <1>5
      <3> QED
        BY <1>1, <1>8, <2>1, <2>3, <3>1 DEF Pending
    <2> QED
      BY <2>2, <2>3
  <1>11. \A b \in Commands : FlushSteps(b)'
    BY <1>1, <1>9
  <1>12. CASE UNCHANGED <<kv, raced>>
    <2>1. UNCHANGED cacheVars
      BY <1>1, <1>12 DEF cacheVars
    <2> QED
      BY <1>1, <1>10, <1>11, <2>1, SameProcFlush
  <1>13. CASE kv' = [kv EXCEPT ![n] = FALSE] /\ raced' = raced \cup UnderWay(n)
    <2>1. \A m \in Nodes : m # n => kv'[m] = kv[m]
      BY <1>3, <1>13
    <2>2. \A r \in Requests : request[r].st = "cached" =>
            kv'[request[r].node] \/ r \in raced'
      <3> SUFFICES ASSUME NEW r \in Requests, request[r].st = "cached"
                   PROVE  kv'[request[r].node] \/ r \in raced'
        OBVIOUS
      <3>1. /\ request[r].node \in Nodes
            /\ kv[request[r].node] \/ r \in raced
        BY <1>3 DEF Linked, FlushInv
      <3>2. request[r].node = n => r \in UnderWay(n)
        BY DEF UnderWay
      <3> QED
        BY <1>13, <2>1, <3>1, <3>2
    <2>3. ASSUME NEW p \in Pids, Holds(p), NEW r \in proc[p].tree
          PROVE  /\ request[r].st = "done"
                 /\ kv'[request[r].node] \/ r \in raced' \/ Pending(proc[p].node)'
      <3>1. /\ request[r].st = "done" /\ r \in Requests
            /\ kv[request[r].node] \/ r \in raced \/ Pending(proc[p].node)
        BY <1>3, <2>3 DEF FlushInv, Process0
      <3>2. request[r].node \in Nodes
        BY <1>3, <3>1 DEF Linked
      \* The server was flushed: then the tree at p is still to be cleared.
      <3>3. Pending(proc[p].node)'
        <4>1. proc[p].node \in Instances
          BY <1>3, <2>3 DEF Linked, Holds
        <4>2. failed'[c] \/ left'[c][proc[p].node] # <<>>
          <5>1. ~failed[c] => left[c][proc[p].node] # <<>>
            BY <1>2, <1>4, <4>1 DEF FlushSteps
          <5>2. left[c][proc[p].node] # <<>> => left'[c][proc[p].node] # <<>>
            BY <1>3, <1>5
          <5> QED
            BY <1>8, <5>1, <5>2
        <4> QED
          BY <1>1, <4>2 DEF Pending
      <3> QED
        BY <3>1, <3>3
    <2>4. \A p \in Pids : proc[p].st \in Fresh => proc[p].tree = {}
      BY DEF FlushInv
    <2> QED
      BY <1>1, <1>11, <2>2, <2>3, <2>4 DEF FlushInv, Holds
  <1> QED
    BY <1>12, <1>13 DEF Flush

LEMMA CommandFlush ==
  ASSUME Inv, FlushInv, NEW c \in Commands, NEW n \in Nodes, CommandStep(c, n),
         UNCHANGED scene
  PROVE  FlushInv'
  <1>1. CASE cmd[c] # "flush"
    BY <1>1, OtherFlush
  <1>2. CASE cmd[c] = "flush"
    <2>1. left[c][n] \in {<<>>, <<"clear">>, <<"flush", "clear">>}
      BY <1>2 DEF FlushInv, FlushSteps
    <2>2. left[c][n] = <<>> \/ Head(left[c][n]) \in {"clear", "flush"}
      BY <2>1
    <2>3. \A step : At(c, n, step) => step \in {"clear", "flush"}
      BY <2>2 DEF At
    <2>4. Clear(c, n) \/ Flush(c, n)
      <3>1. ~ClusterConnect(c, n) /\ ~UploadToCluster(c, n) /\ ~Connect(c, n)
        BY <2>3 DEF ClusterConnect, UploadToCluster, Connect
      <3>2. ~RunScript(c, n) /\ ~ScriptEnds(c, n)
        BY <2>3 DEF RunScript, Scripted, ScriptEnds
      <3>3. ~ScriptLost(c, n)
        BY <2>3 DEF Scripted, ScriptLost
      <3>4. ~Upload(c, n) /\ ~Chmod(c, n)
        BY <2>3 DEF Upload, Chmod
      <3>5. ~Verify(c, n) /\ ~SetPolicy(c, n)
        BY <2>3 DEF Verify, SetPolicy
      <3> QED
        BY <3>1, <3>2, <3>3, <3>4, <3>5 DEF CommandStep
    <2> QED
      BY <1>2, <2>4, ClearFlush, FlushFlush
  <1> QED
    BY <1>1, <1>2

LEMMA ScriptFlush ==
  ASSUME Inv, FlushInv, NEW c \in Commands, NEW n \in Nodes, ScriptStep(c, n),
         UNCHANGED scene
  PROVE  FlushInv'
  <1>1. UNCHANGED <<cmd, left, failed, orderly, cacheVars>>
    BY DEF ScriptStep
  <1>2. /\ \A b \in Commands : FlushSteps(b)'
        /\ \A p \in Pids : proc'[p].node = proc[p].node =>
             (Pending(proc[p].node) => Pending(proc[p].node)')
    BY <1>1, SameFlush
  <1>3. CASE proc' = proc
    BY <1>1, <1>2, <1>3, SameProcFlush
  <1>4. CASE Quieter /\ \E ps : proc' = Killed(ps) \/ proc' = Terminated(ps)
    <2>1. \A p \in Pids : proc'[p].tree = proc[p].tree
      BY <1>4, TreesKept DEF Inv
    <2>2. \A p \in Pids : proc'[p].node = proc[p].node
      BY <1>4 DEF Quieter, Calm
    <2>3. \A p \in Pids : Stays(p)
      BY <1>2, <1>4, <2>1, <2>2, QuietStays
    <2> QED
      BY <1>1, <1>2, <2>2, <2>3, StaysFlush
  <1>5. CASE \/ KillSession(c, n) \/ Terminate(c, n) \/ KillHard(c, n)
             \/ StopByPidFile(c, n)
    <2>1. Quieter
      BY <1>1, <1>5, KillSessionTame, TerminateTame, KillHardTame, StopTame
    <2>2. \E ps : proc' = Killed(ps) \/ proc' = Terminated(ps)
      BY <1>5 DEF KillSession, Terminate, KillHard, StopByPidFile
    <2> QED
      BY <1>4, <2>1, <2>2
  <1>6. CASE RemoveBinary(c, n) \/ CheckHealth(c, n)
    BY <1>3, <1>6 DEF RemoveBinary, CheckHealth, nodeVars
  <1>7. CASE StartProcess(c, n) \/ StartSession(c, n)
    <2>1. Launched(c, n) \/ NotLaunched(c, n)
      BY <1>7, StartCases
    <2>2. CASE NotLaunched(c, n)
      BY <1>3, <2>2 DEF NotLaunched
    <2>3. CASE Launched(c, n)
      <3>1. PICK kind \in {"lb", "proxy"}, how \in Hows, p \in Pids :
              Born(n, kind, how, p)
        BY <2>3 DEF Launched
      <3>2. /\ proc'[p].tree = {}
            /\ \A q \in Pids : q # p => proc'[q] = proc[q]
        BY <3>1, BornFacts DEF Inv
      <3>3. ASSUME NEW q \in Pids
            PROVE  /\ Stays(q)
                   /\ proc'[q].tree # {} => proc'[q].node = proc[q].node
        BY <1>2, <3>2 DEF Stays, Holds
      <3> QED
        BY <1>1, <1>2, <3>3, StaysFlush
    <2> QED
      BY <2>1, <2>2, <2>3
  <1> QED
    BY <1>5, <1>6, <1>7 DEF ScriptStep

LEMMA InitFlush == Init => FlushInv
  <1> SUFFICES ASSUME Init PROVE FlushInv
    OBVIOUS
  <1>1. /\ \A c \in Commands : cmd[c] # "flush"
        /\ \A r \in Requests : request[r].st = "none"
    BY DeployAssumption DEF Init, DeployAssumption, Known
  <1>2. ASSUME NEW p \in Pids PROVE proc[p].tree = {}
    BY DEF Init, Process, NoProcess
  <1> QED
    BY <1>1, <1>2 DEF FlushInv, FlushSteps

LEMMA NextFlush == Inv /\ FlushInv /\ [Next]_vars => FlushInv'
  <1> SUFFICES ASSUME Inv, FlushInv, [Next]_vars PROVE FlushInv'
    OBVIOUS
  <1>1. CASE UNCHANGED vars
    <2>1. UNCHANGED <<scene, cmd, left, failed, proc, cacheVars>>
      BY <1>1 DEF vars, commandVars, nodeVars
    <2>2. /\ \A c \in Commands : FlushSteps(c)'
          /\ \A p \in Pids : Pending(proc[p].node) => Pending(proc[p].node)'
      BY <2>1, SameFlush
    <2> QED
      BY <2>1, <2>2, SameProcFlush
  <1>2. CASE Next
    <2>0. UNCHANGED scene
      BY <1>2 DEF Next
    <2>1. CASE \E p \in Pids : LBStart(p) \/ ProxyStart(p) \/ Stopped(p) \/ Crash(p)
      BY <2>0, <2>1, ProcessFlush DEF LBStart, ProxyStart, Stopped, Crash
    <2>2. CASE \/ \E r \in Requests, p \in Pids, n \in Nodes : Submit(r, p, n)
               \/ \E r \in Requests : Cached(r) \/ InsertAfterAnswer(r)
      BY <2>0, <2>2, RequestFlush
    <2>3. CASE \E c \in Commands, kind \in Kinds, n \in Nodes : Give(c, kind, n)
      BY <2>0, <2>3, GiveFlush
    <2>4. CASE \E c \in Commands : Interrupt(c) \/ UploadsEnd(c)
      BY <2>0, <2>4, InterruptFlush
    <2>5. CASE \E c \in Commands, n \in Nodes : CommandStep(c, n)
      BY <2>0, <2>5, CommandFlush
    <2>6. CASE \E c \in Commands, n \in Nodes : ScriptStep(c, n)
      BY <2>0, <2>6, ScriptFlush
    <2> QED
      BY <1>2, <2>1, <2>2, <2>3, <2>4, <2>5, <2>6 DEF Next
  <1> QED
    BY <1>1, <1>2

\* Once flush-cache has gone through, no tree names a server for a prompt that the
\* flush has removed there, but for requests that were under way (cmd/cluster.go)
\* and those that the queue's processor recorded after a bad answer.
THEOREM Flushes == Spec => []FlushLeavesNoStaleEntry
  <1>1. ASSUME Inv, FlushInv PROVE FlushLeavesNoStaleEntry
    <2> SUFFICES ASSUME \E c \in Commands : FlushedAll(c),
                        \A c \in Commands : cmd[c] = "flush" => FlushedAll(c),
                        NEW p \in Pids, proc[p].st = "serving",
                        NEW r \in proc[p].tree
                 PROVE  kv[request[r].node] \/ r \in raced
      BY DEF FlushLeavesNoStaleEntry
    <2>1. proc[p].node \in Nodes
      BY <1>1, SceneFacts DEF Inv, Linked
    <2>2. ~Pending(proc[p].node)
      BY <2>1 DEF Pending, FlushedAll
    <2> QED
      BY <1>1, <2>2 DEF FlushInv, Holds
  <1>2. Inv /\ FlushInv => FlushLeavesNoStaleEntry
    BY <1>1
  <1> QED
    BY <1>2, InitInv, NextInv, InitFlush, NextFlush, PTL DEF Spec

=============================================================================
