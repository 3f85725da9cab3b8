---------------------- MODULE CodegenCoordinatorProofs ----------------------
(***************************************************************************)
(* Proofs about CodegenCoordinator, for every set of sessions that keeps   *)
(* to ConfigsAssumption: any number of codegen units, tokens and jobs.     *)
(*                                                                         *)
(* The invariants of the runs are inductive only together.  That the       *)
(* coordinator counts its workers right needs that a module is at one      *)
(* place only; that no assertion fails needs the protocol by which the     *)
(* main thread and the coordinator hand the implicit token to and fro;     *)
(* that the build ends right needs all of it, and that every error has     *)
(* been told before the coordinator hears of it.                           *)
(***************************************************************************)
EXTENDS CodegenCoordinator, FiniteSetTheorems, TLAPS

Loop == coordinator \in {"top", "recv"}
Thin == coordinator \in {"thin_top", "thin_recv"}

Panics == {"worker panicked", "import assertion"}

\* TypeOK, without the bounds that follow from the conservation of tokens.
Typed ==
  /\ config \in Configs
  /\ main \in {"wait", "check", "codegen", "last_check", "join_check", "join",
               "drop", "dropping"} \cup Final
  /\ next \in 1..(Len(config.cgus) + 1) /\ errors \in BOOLEAN
  /\ inbox \in Seq(Messages) /\ cgu_messages \in 0..1 /\ diagnostics \in Nat
  /\ coordinator \in {"top", "recv", "thin_top", "thin_recv", "ended"}
  /\ codegen_state \in {"Ongoing", "Completed", "Aborted"}
  /\ main_thread_state \in {"Idle", "Codegenning", "Lending"}
  /\ work_items \subseteq CGUs /\ compiled \subseteq CGUs
  /\ needs_lto \subseteq CGUs /\ import_only \subseteq CGUs
  /\ working \subseteq CGUs /\ failing \subseteq CGUs
  /\ tokens \in Nat /\ pool \in Nat /\ stranded \in Nat
  /\ running_with_own_token \in Nat /\ pending \in Nat
  /\ result \in {"none", "Ok", "Err", "FatalError"} \cup Panics

\* No token is lost, and an ended coordinator has given all of them back.
Conserved ==
  /\ tokens + pool + stranded + TokensIn(inbox) = config.available
  /\ Loop => stranded = 0
  /\ Ended => /\ pool = config.available /\ tokens = 0 /\ stranded = 0
              /\ pending = 0 /\ inbox = <<>>

\* The workers are counted right; in the loop each has a token of its own, but
\* for the one that works on the implicit token.  While the coordinator waits it
\* has no more tokens than that.  One that ended in order leaves no worker.
Counted ==
  /\ RunningExact
  /\ result = "none" <=> ~Ended
  /\ Loop => running_with_own_token <= tokens
  /\ coordinator = "recv" => tokens <= running_with_own_token
  /\ Thin => running_with_own_token <= tokens + 1 /\ main_thread_state # "Lending"
  /\ coordinator = "thin_recv" => tokens + 1 <= running_with_own_token
  /\ result \in {"Ok", "Err", "FatalError"} => working = {} /\ failing = {}

Reply(m) == m.type \in {"CodegenDone", "CodegenComplete", "AddImportOnlyModule"}

\* The main thread has been asked for code, generates it or has sent it, only
\* one of these, and only while the coordinator has left the implicit token to it.
Asked ==
  /\ Loop /\ (cgu_messages = 1 \/ main \in {"check", "codegen"}) =>
       /\ main_thread_state = "Codegenning"
       /\ cgu_messages = 1 => main \notin {"check", "codegen"}
       /\ \A i \in DOMAIN inbox : ~Reply(inbox[i])
  /\ \A i \in DOMAIN inbox : Reply(inbox[i]) =>
       /\ Loop /\ main_thread_state = "Codegenning"
       /\ \A j \in DOMAIN inbox : Reply(inbox[j]) => i = j
  /\ codegen_state = "Completed" => main_thread_state # "Codegenning"

Complete ==
  \/ codegen_state = "Completed" \/ Thin
  \/ \E i \in DOMAIN inbox : inbox[i].type = "CodegenComplete"

\* After CodegenComplete the main thread generates no more code; it has ended
\* only after the coordinator, and in order only with nobody left to report.
MainEnds ==
  /\ Complete => main \notin {"wait", "check", "codegen"} /\ next = Len(config.cgus) + 1
  /\ Thin => \A i \in DOMAIN inbox : inbox[i].type \in {"Token", "WorkItem"}
  /\ main \in Final \cup {"join"} => Ended
  /\ main \in {"join", "done", "unexpected", "bug"} => diagnostics = 0 /\ working = {}
  /\ main = "done" => result = "Ok"
  /\ AbortIsExplained

\* An error has been told: its diagnostic is under way or has been seen.
Told == diagnostics > 0 \/ main \in {"drop", "dropping", "failed"}

\* Whatever makes the coordinator abort has been told before.
ErrorsTold ==
  \/ codegen_state = "Aborted" \/ failing # {}
  \/ result \in {"Err", "FatalError", "import assertion"}
  \/ \E i \in DOMAIN inbox : \/ inbox[i].type = "CodegenAborted"
                             \/ inbox[i].type = "WorkItem" /\ inbox[i].res = "fatal"
  => Told

Carries(m) == m.type \in {"CodegenDone", "AddImportOnlyModule", "WorkItem"}

\* Modules in a channel, and in the inbox.
MailedIn(q) == {c \in CGUs : \E i \in DOMAIN q : Carries(q[i]) /\ q[i].cgu = c}
Mailed == MailedIn(inbox)

\* A module is at one place, and only once it has been submitted.
Placed ==
  /\ work_items \cap working = {} /\ (work_items \cup working) \cap failing = {}
  /\ (work_items \cup working \cup failing) \cap Mailed = {}
  /\ (work_items \cup working \cup failing \cup Mailed) \cap compiled = {}
  /\ (work_items \cup working \cup failing \cup Mailed \cup compiled) \cap needs_lto = {}
  /\ (work_items \cup working \cup failing \cup Mailed \cup compiled \cup needs_lto)
       \cap import_only = {}
  /\ \A i, j \in DOMAIN inbox :
       Carries(inbox[i]) /\ Carries(inbox[j]) /\ inbox[i].cgu = inbox[j].cgu => i = j
  /\ \A c \in work_items \cup working \cup failing \cup Mailed \cup compiled
               \cup needs_lto \cup import_only : c < next

\* Unless something fails, no module is lost; and a coordinator that ended well
\* has processed all.
Kept ==
  /\ result \in {"none", "Ok"} /\ codegen_state # "Aborted" =>
       \A c \in CGUs : c < next =>
         c \in work_items \cup working \cup failing \cup Mailed \cup compiled
                 \cup needs_lto \cup import_only
  /\ config.lto = "No" =>
       /\ needs_lto = {} /\ import_only = {}
       /\ \A i \in DOMAIN inbox : inbox[i].type # "AddImportOnlyModule"
  /\ Thin => needs_lto = {} /\ import_only = {} /\ codegen_state # "Ongoing"
  /\ result = "Ok" => /\ codegen_state = "Completed" /\ work_items = {}
                      /\ config.lto # "Fat" => needs_lto = {} /\ import_only = {}

Inv ==
  /\ Typed /\ Conserved /\ Counted /\ Asked /\ MainEnds /\ ErrorsTold /\ Placed /\ Kept

-----------------------------------------------------------------------------
(* Messages, and what a channel does to the counts.                        *)

\* The fields of a message, by its type.
LEMMA MessageFields ==
  ASSUME NEW m \in Messages
  PROVE  /\ m.type \in {"CodegenComplete", "CodegenAborted", "CodegenDone",
                        "AddImportOnlyModule", "Token", "WorkItem"}
         /\ Carries(m) => m.cgu \in CGUs
         /\ m.type = "Token" => m.ok \in BOOLEAN
         /\ m.type = "WorkItem" => m.res \in {"ok", "fatal", "panic"}
BY DEF Messages, Carries

\* The messages that are sent.
LEMMA NewMessages ==
  /\ [type |-> "CodegenComplete"] \in Messages
  /\ [type |-> "CodegenAborted"] \in Messages
  /\ [type |-> "Token", ok |-> TRUE] \in Messages /\ [type |-> "Token", ok |-> FALSE] \in Messages
  /\ \A c \in CGUs : /\ Submission(c) \in Messages
                     /\ \A r \in {"ok", "fatal", "panic"} : WorkItem(c, r) \in Messages
<1>1. \A t \in {"CodegenDone", "AddImportOnlyModule"}, c \in CGUs :
         [type |-> t, cgu |-> c] \in Messages
  BY DEF Messages
<1>2. \A c \in CGUs : Submission(c) \in Messages
  BY <1>1 DEF Submission
<1>3. \A c \in CGUs : \A r \in {"ok", "fatal", "panic"} : WorkItem(c, r) \in Messages
  BY DEF Messages, WorkItem
<1>4. /\ [type |-> "CodegenComplete"] \in Messages
      /\ [type |-> "CodegenAborted"] \in Messages
  BY DEF Messages
<1>5. [type |-> "Token", ok |-> TRUE] \in Messages /\ [type |-> "Token", ok |-> FALSE] \in Messages
  BY DEF Messages
<1> QED
  BY <1>2, <1>3, <1>4, <1>5

\* How many of a channel's messages are in a set.
Count(q, S) == Cardinality({i \in DOMAIN q : q[i] \in S})

\* A number of messages is a natural number; sending a message adds it.
LEMMA CountAppend ==
  ASSUME NEW T, NEW q \in Seq(T), NEW m \in T, NEW S
  PROVE  /\ Count(q, S) \in Nat
         /\ Count(Append(q, m), S) = Count(q, S) + (IF m \in S THEN 1 ELSE 0)
<1> DEFINE I == {i \in DOMAIN q : q[i] \in S}
           J == {i \in DOMAIN Append(q, m) : Append(q, m)[i] \in S}
           n == Len(q) + 1
<1>1. IsFiniteSet(I) /\ Cardinality(I) \in Nat
  <2>1. IsFiniteSet(1..Len(q))
    BY FS_Interval
  <2>2. I \subseteq 1..Len(q)
    OBVIOUS
  <2> QED
    BY <2>1, <2>2, FS_Subset, FS_CardinalityType
<1>2. n \notin I
  OBVIOUS
<1>3. J = IF m \in S THEN I \cup {n} ELSE I
  OBVIOUS
<1>4. Cardinality(I \cup {n}) = Cardinality(I) + 1
  BY <1>1, <1>2, FS_AddElement
<1>5. Count(q, S) = Cardinality(I) /\ Count(Append(q, m), S) = Cardinality(J)
  BY DEF Count
<1> HIDE DEF I, J, n
<1> QED
  BY <1>1, <1>3, <1>4, <1>5

\* Receiving the first message takes it away.
LEMMA CountTail ==
  ASSUME NEW T, NEW q \in Seq(T), q # <<>>, NEW S
  PROVE  Count(q, S) = Count(Tail(q), S) + (IF Head(q) \in S THEN 1 ELSE 0)
<1> DEFINE I == {i \in DOMAIN q : q[i] \in S}
           J == {i \in DOMAIN Tail(q) : Tail(q)[i] \in S}
           f == [j \in J |-> j + 1]
<1>1. DOMAIN q = 1..Len(q) /\ DOMAIN Tail(q) = 1..(Len(q) - 1) /\ Len(q) \in Nat /\ Len(q) # 0
  OBVIOUS
<1>2. \A i \in 1..(Len(q) - 1) : Tail(q)[i] = q[i + 1]
  OBVIOUS
<1>3. IsFiniteSet(J)
  <2>1. IsFiniteSet(1..(Len(q) - 1))
    BY FS_Interval
  <2> QED
    BY <2>1, <1>1, FS_Subset
<1>4. f \in Bijection(J, I \ {1})
  <2>1. f \in [J -> I \ {1}]
    BY <1>1, <1>2
  <2>2. \A a, b \in J : f[a] = f[b] => a = b
    BY <1>1
  <2>3. \A i \in I \ {1} : \E j \in J : f[j] = i
    <3> TAKE i \in I \ {1}
    <3>1. i - 1 \in J /\ f[i - 1] = i
      BY <1>1, <1>2
    <3> QED
      BY <3>1
  <2> QED
    BY <2>1, <2>2, <2>3 DEF Bijection, Injection, Surjection, IsInjective
<1>5. ExistsBijection(J, I \ {1})
  BY <1>4 DEF ExistsBijection
<1>6. IsFiniteSet(I \ {1}) /\ Cardinality(I \ {1}) = Cardinality(J) /\ Cardinality(J) \in Nat
  BY <1>3, <1>5, FS_Bijection, FS_CardinalityType
<1>7. 1 \in I <=> Head(q) \in S
  BY <1>1
<1>0. Count(q, S) = Cardinality(I) /\ Count(Tail(q), S) = Cardinality(J)
  BY DEF Count
<1> HIDE DEF I, J, f
<1>8. CASE 1 \in I
  <2>1. (I \ {1}) \cup {1} = I
    BY <1>8
  <2>2. Cardinality((I \ {1}) \cup {1}) = Cardinality(I \ {1}) + 1
    BY <1>6, FS_AddElement
  <2> QED
    BY <1>6, <1>7, <1>8, <1>0, <2>1, <2>2
<1>9. CASE 1 \notin I
  <2>1. I \ {1} = I
    BY <1>9
  <2>2. Cardinality(I \ {1}) = Cardinality(I)
    BY <2>1, Zenon
  <2> QED
    BY <1>6, <1>7, <1>9, <1>0, <2>2
<1> QED
  BY <1>8, <1>9

\* The workers' results in a channel.
Results(q) == Cardinality({i \in DOMAIN q : q[i].type = "WorkItem"})

\* The tokens and the results in a channel, as numbers of messages in a set.
LEMMA CountsOf ==
  ASSUME NEW q \in Seq(Messages)
  PROVE  /\ TokensIn(q) = Count(q, {m \in Messages : IsToken(m)})
         /\ Results(q) = Count(q, {m \in Messages : m.type = "WorkItem"})
<1>1. \A i \in DOMAIN q : q[i] \in Messages
  OBVIOUS
<1>2. {i \in DOMAIN q : IsToken(q[i])} = {i \in DOMAIN q : q[i] \in {m \in Messages : IsToken(m)}}
  BY <1>1
<1>3. {i \in DOMAIN q : q[i].type = "WorkItem"}
        = {i \in DOMAIN q : q[i] \in {m \in Messages : m.type = "WorkItem"}}
  BY <1>1
<1> QED
  BY <1>2, <1>3 DEF TokensIn, Results, Count

\* What sending does to a channel.
LEMMA Sent ==
  ASSUME NEW q \in Seq(Messages), NEW m \in Messages
  PROVE  /\ Append(q, m) \in Seq(Messages)
         /\ DOMAIN Append(q, m) = DOMAIN q \cup {Len(q) + 1} /\ Len(q) + 1 \notin DOMAIN q
         /\ \A i \in DOMAIN q : Append(q, m)[i] = q[i]
         /\ Append(q, m)[Len(q) + 1] = m
         /\ TokensIn(q) \in Nat /\ Results(q) \in Nat
         /\ TokensIn(Append(q, m)) = TokensIn(q) + (IF IsToken(m) THEN 1 ELSE 0)
         /\ Results(Append(q, m)) = Results(q) + (IF m.type = "WorkItem" THEN 1 ELSE 0)
         /\ MailedIn(Append(q, m)) = MailedIn(q) \cup {c \in CGUs : Carries(m) /\ m.cgu = c}
<1>1. /\ Append(q, m) \in Seq(Messages)
      /\ DOMAIN Append(q, m) = DOMAIN q \cup {Len(q) + 1} /\ Len(q) + 1 \notin DOMAIN q
      /\ \A i \in DOMAIN q : Append(q, m)[i] = q[i]
      /\ Append(q, m)[Len(q) + 1] = m
  OBVIOUS
<1> DEFINE S == {x \in Messages : IsToken(x)}
           R == {x \in Messages : x.type = "WorkItem"}
<1>2. /\ Count(q, S) \in Nat /\ Count(q, R) \in Nat
      /\ Count(Append(q, m), S) = Count(q, S) + (IF m \in S THEN 1 ELSE 0)
      /\ Count(Append(q, m), R) = Count(q, R) + (IF m \in R THEN 1 ELSE 0)
  BY CountAppend
<1>3. (m \in S <=> IsToken(m)) /\ (m \in R <=> m.type = "WorkItem")
  OBVIOUS
<1>4. TokensIn(q) = Count(q, S) /\ Results(q) = Count(q, R)
  BY CountsOf
<1>5. TokensIn(Append(q, m)) = Count(Append(q, m), S) /\ Results(Append(q, m)) = Count(Append(q, m), R)
  BY <1>1, CountsOf
<1>6. MailedIn(Append(q, m)) = MailedIn(q) \cup {c \in CGUs : Carries(m) /\ m.cgu = c}
  BY <1>1 DEF MailedIn
<1> HIDE DEF S, R
<1> QED
  BY <1>1, <1>2, <1>3, <1>4, <1>5, <1>6

\* What receiving does.
LEMMA Taken ==
  ASSUME NEW q \in Seq(Messages), q # <<>>
  PROVE  /\ Tail(q) \in Seq(Messages) /\ Head(q) \in Messages
         /\ 1 \in DOMAIN q /\ Head(q) = q[1]
         /\ \A i \in DOMAIN Tail(q) : i + 1 \in DOMAIN q /\ i + 1 # 1 /\ Tail(q)[i] = q[i + 1]
         /\ \A i \in DOMAIN q \ {1} : i - 1 \in DOMAIN Tail(q) /\ Tail(q)[i - 1] = q[i]
         /\ TokensIn(Tail(q)) \in Nat /\ Results(Tail(q)) \in Nat
         /\ TokensIn(q) = TokensIn(Tail(q)) + (IF IsToken(Head(q)) THEN 1 ELSE 0)
         /\ Results(q) = Results(Tail(q)) + (IF Head(q).type = "WorkItem" THEN 1 ELSE 0)
         /\ MailedIn(q) = MailedIn(Tail(q)) \cup {c \in CGUs : Carries(Head(q)) /\ Head(q).cgu = c}
<1>1. /\ Tail(q) \in Seq(Messages) /\ Head(q) \in Messages
      /\ 1 \in DOMAIN q /\ Head(q) = q[1]
      /\ \A i \in DOMAIN Tail(q) : i + 1 \in DOMAIN q /\ i + 1 # 1 /\ Tail(q)[i] = q[i + 1]
      /\ \A i \in DOMAIN q \ {1} : i - 1 \in DOMAIN Tail(q) /\ Tail(q)[i - 1] = q[i]
  OBVIOUS
<1> DEFINE S == {x \in Messages : IsToken(x)}
           R == {x \in Messages : x.type = "WorkItem"}
<1>2. /\ Count(q, S) = Count(Tail(q), S) + (IF Head(q) \in S THEN 1 ELSE 0)
      /\ Count(q, R) = Count(Tail(q), R) + (IF Head(q) \in R THEN 1 ELSE 0)
  BY CountTail
<1>3. (Head(q) \in S <=> IsToken(Head(q))) /\ (Head(q) \in R <=> Head(q).type = "WorkItem")
  BY <1>1
<1>4. TokensIn(q) = Count(q, S) /\ Results(q) = Count(q, R)
  BY CountsOf
<1>5. TokensIn(Tail(q)) = Count(Tail(q), S) /\ Results(Tail(q)) = Count(Tail(q), R)
  BY <1>1, CountsOf
<1>6. TokensIn(Tail(q)) \in Nat /\ Results(Tail(q)) \in Nat
  BY <1>1, Sent
<1>7. MailedIn(q) = MailedIn(Tail(q)) \cup {c \in CGUs : Carries(Head(q)) /\ Head(q).cgu = c}
  <2>1. ASSUME NEW c \in MailedIn(q)
        PROVE  c \in MailedIn(Tail(q)) \/ (c \in CGUs /\ Carries(Head(q)) /\ Head(q).cgu = c)
    <3>1. PICK i \in DOMAIN q : Carries(q[i]) /\ q[i].cgu = c
      BY <2>1 DEF MailedIn
    <3>2. CASE i = 1
      BY <1>1, <3>1, <3>2 DEF MailedIn
    <3>3. CASE i # 1
      <4>1. i - 1 \in DOMAIN Tail(q) /\ Tail(q)[i - 1] = q[i]
        BY <1>1, <3>3
      <4> QED
        BY <3>1, <4>1 DEF MailedIn
    <3> QED
      BY <3>2, <3>3
  <2>2. ASSUME NEW c \in MailedIn(Tail(q))
        PROVE  c \in MailedIn(q)
    BY <1>1 DEF MailedIn
  <2>3. ASSUME NEW c \in CGUs, Carries(Head(q)), Head(q).cgu = c
        PROVE  c \in MailedIn(q)
    BY <1>1, <2>3 DEF MailedIn
  <2> QED
    BY <2>1, <2>2, <2>3
<1> HIDE DEF S, R
<1> QED
  BY <1>1, <1>2, <1>3, <1>4, <1>5, <1>6, <1>7

\* An empty channel.
LEMMA NothingIn ==
  TokensIn(<<>>) = 0 /\ Results(<<>>) = 0 /\ DOMAIN <<>> = {} /\ <<>> \in Seq(Messages)
<1>1. DOMAIN <<>> = {}
  OBVIOUS
<1>2. {i \in DOMAIN <<>> : IsToken(<<>>[i])} = {} /\ {i \in DOMAIN <<>> : <<>>[i].type = "WorkItem"} = {}
  BY <1>1
<1>3. <<>> \in Seq(Messages)
  OBVIOUS
<1> QED
  BY <1>1, <1>2, <1>3, FS_EmptySet DEF TokensIn, Results

-----------------------------------------------------------------------------
(* Numbers.                                                                *)

\* The smaller one of two numbers.
LEMMA MinTwo ==
  ASSUME NEW a \in Int, NEW b \in Int
  PROVE  Min({a, b}) = IF a <= b THEN a ELSE b
<1> DEFINE c == IF a <= b THEN a ELSE b
<1>1. c \in {a, b} /\ \A y \in {a, b} : c <= y
  OBVIOUS
<1>2. \A x \in {a, b} : (\A y \in {a, b} : x <= y) => x = c
  OBVIOUS
<1> QED
  BY <1>1, <1>2 DEF Min

\* Sets of codegen units can be counted.
LEMMA CountCGUs ==
  ASSUME Typed, NEW A, A \subseteq CGUs
  PROVE  IsFiniteSet(A) /\ Cardinality(A) \in Nat /\ (Cardinality(A) = 0 <=> A = {})
<1>1. Len(config.cgus) \in Nat
  BY ConfigsAssumption DEF Typed
<1>2. IsFiniteSet(CGUs)
  BY <1>1, FS_Interval DEF CGUs
<1>3. IsFiniteSet(A)
  BY <1>2, FS_Subset
<1> QED
  BY <1>3, FS_CardinalityType, FS_EmptySet

\* Of sets that have nothing in common the numbers add up.
LEMMA CountUnion ==
  ASSUME Typed, NEW A, A \subseteq CGUs, NEW B, B \subseteq CGUs, A \cap B = {}
  PROVE  Cardinality(A \cup B) = Cardinality(A) + Cardinality(B)
<1>1. IsFiniteSet(A) /\ IsFiniteSet(B) /\ Cardinality(A) \in Nat /\ Cardinality(B) \in Nat
  BY CountCGUs
<1>2. Cardinality(A \cap B) = 0
  BY FS_EmptySet
<1>3. Cardinality(A \cup B) = Cardinality(A) + Cardinality(B) - Cardinality(A \cap B)
  BY <1>1, FS_Union
<1> QED
  BY <1>1, <1>2, <1>3

\* Of one element.
LEMMA CountOne ==
  ASSUME Typed, NEW A, A \subseteq CGUs, NEW c \in CGUs
  PROVE  /\ c \in A => Cardinality(A \ {c}) = Cardinality(A) - 1
         /\ c \notin A => Cardinality(A \cup {c}) = Cardinality(A) + 1
<1>1. IsFiniteSet(A) /\ Cardinality(A) \in Nat
  BY CountCGUs
<1> QED
  BY <1>1, FS_AddElement, FS_RemoveElement

-----------------------------------------------------------------------------
(* The main thread.                                                        *)

\* Nothing has been asked for or sent at the start.
LEMMA InitInv == Init => Inv
<1> SUFFICES ASSUME Init PROVE Inv
  OBVIOUS
<1>1. TokensIn(inbox) = 0 /\ Results(inbox) = 0 /\ DOMAIN inbox = {}
  BY NothingIn DEF Init
<1>2. Len(config.cgus) \in Nat /\ config.available \in Nat
  BY ConfigsAssumption DEF Init
<1>3. inbox \in Seq(Messages)
  BY DEF Init
<1>4. Cardinality({}) = 0
  BY FS_EmptySet
<1>5. Typed
  <2>1. 1 \in 1..(Len(config.cgus) + 1)
    BY <1>2
  <2>2. errors \in BOOLEAN
    BY Zenon DEF Init
  <2>3. next \in 1..(Len(config.cgus) + 1)
    BY <2>1 DEF Init
  <2> QED
    BY <1>2, <1>3, <2>2, <2>3 DEF Init, Typed
<1>6. Conserved
  BY <1>1, <1>2 DEF Init, Conserved, Loop, Ended
<1>7. Counted
  BY <1>1, <1>4 DEF Init, Counted, Ended, RunningExact, Running, running_with_any_token,
                    Unread, Results, Loop, Thin
<1>8. Asked /\ MainEnds /\ ErrorsTold
  BY <1>1 DEF Init, Asked, MainEnds, ErrorsTold, Complete, Thin, Final, AbortIsExplained, Panics
<1>9. Mailed = {}
  BY <1>1 DEF Mailed, MailedIn
<1>10. Placed
  BY <1>1, <1>9 DEF Init, Placed
<1>11. Kept
  BY <1>1, <1>2, <1>9 DEF Init, Kept, Thin, CGUs
<1> QED
  BY <1>5, <1>6, <1>7, <1>8, <1>10, <1>11 DEF Inv

\* Where the configuration stays the same, so do the sets made from it.
LEMMA SameConfig ==
  ASSUME config' = config
  PROVE  /\ CGUs' = CGUs /\ Messages' = Messages /\ Mailed' = MailedIn(inbox')
         /\ \A c : Submission(c)' = Submission(c)
BY DEF CGUs, Messages, Mailed, MailedIn, Submission

\* wait_for_signal_to_codegen_item: the CguMessage is taken, or the channel is closed
\* by a coordinator that has ended.
LEMMA SignalInv ==
  ASSUME Inv, wait_for_signal_to_codegen_item
  PROVE  Inv'
<1>1. /\ UNCHANGED <<config, next, errors, inbox, diagnostics, coordinator, codegen_state,
                     main_thread_state, work_items, tokens, running_with_own_token, compiled,
                     needs_lto, import_only, result, working, failing, pending, pool, stranded>>
      /\ main = "wait" /\ main' = "check"
      /\ \/ cgu_messages > 0 /\ cgu_messages' = cgu_messages - 1
         \/ cgu_messages = 0 /\ Ended /\ cgu_messages' = cgu_messages
  BY DEF wait_for_signal_to_codegen_item, loopVars, outVars
<1>2. CGUs' = CGUs /\ Messages' = Messages /\ Mailed' = Mailed
  BY <1>1, SameConfig DEF Mailed
<1>3. Typed'
  BY <1>1, <1>2 DEF Inv, Typed
<1>4. Conserved' /\ Counted'
  BY <1>1 DEF Inv, Conserved, Counted, TokensIn, Ended, RunningExact, Running,
              running_with_any_token, Unread, Loop, Thin
<1>5. Asked'
  BY <1>1 DEF Inv, Typed, Asked, Loop, Ended
<1>6. MainEnds' /\ ErrorsTold'
  BY <1>1 DEF Inv, Typed, MainEnds, ErrorsTold, Told, Complete, Thin, Final, AbortIsExplained, Ended
<1>7. Placed' /\ Kept'
  BY <1>1, <1>2 DEF Inv, Placed, Kept, Thin
<1> QED
  BY <1>3, <1>4, <1>5, <1>6, <1>7 DEF Inv

\* SharedEmitterMain::check: an error that is found unwinds the main thread; the
\* last check ends only when nobody is left to report.
LEMMA CheckInv ==
  ASSUME Inv, check
  PROVE  Inv'
<1>1. /\ UNCHANGED <<config, next, inbox, cgu_messages, coordinator, codegen_state,
                     main_thread_state, work_items, tokens, running_with_own_token, compiled,
                     needs_lto, import_only, result, working, failing, pending, pool, stranded>>
      /\ \/ /\ main \in {"check", "last_check", "join_check"} /\ main' = "drop"
            /\ diagnostics > 0 /\ diagnostics' = diagnostics - 1 /\ errors' = TRUE
         \/ /\ diagnostics = 0 /\ diagnostics' = diagnostics /\ errors' = errors
            /\ \/ main = "check" /\ main' = "codegen"
               \/ main = "last_check" /\ main' = "join_check"
               \/ main = "join_check" /\ Ended /\ working = {} /\ main' = "join"
  BY DEF check, Unwind, loopVars, outVars
<1>2. CGUs' = CGUs /\ Messages' = Messages /\ Mailed' = Mailed
  BY <1>1, SameConfig DEF Mailed
<1>3. Typed'
  <2>1. errors' \in BOOLEAN
    BY <1>1, Zenon DEF Inv, Typed
  <2> QED
    BY <1>1, <1>2, <2>1 DEF Inv, Typed
<1>4. Conserved' /\ Counted'
  BY <1>1 DEF Inv, Conserved, Counted, TokensIn, Ended, RunningExact, Running,
              running_with_any_token, Unread, Loop, Thin
<1>5. Asked'
  BY <1>1 DEF Inv, Typed, Asked, Loop, Ended
<1>6. MainEnds'
  BY <1>1 DEF Inv, Typed, MainEnds, Complete, Thin, Final, AbortIsExplained, Ended
<1>7. ErrorsTold'
  BY <1>1 DEF Inv, Typed, ErrorsTold, Told
<1>8. Placed' /\ Kept'
  BY <1>1, <1>2 DEF Inv, Placed, Kept, Thin
<1> QED
  BY <1>3, <1>4, <1>5, <1>6, <1>7, <1>8 DEF Inv

\* OngoingCodegen::join: an aborted coordinator has told why, so its errors have
\* unwound the main thread before it gets here.
LEMMA JoinInv ==
  ASSUME Inv, join
  PROVE  Inv'
<1>1. /\ UNCHANGED <<config, next, errors, inbox, cgu_messages, diagnostics, coordinator,
                     codegen_state, main_thread_state, work_items, tokens,
                     running_with_own_token, compiled, needs_lto, import_only, result,
                     working, failing, pending, pool, stranded>>
      /\ main = "join" /\ Ended
      /\ main' = CASE result = "Ok"  -> IF errors THEN "failed" ELSE "done"
                   [] result = "Err" -> IF errors THEN "failed" ELSE "unexpected"
                   [] OTHER          -> "bug"
  BY DEF join, loopVars, outVars
<1>2. CGUs' = CGUs /\ Messages' = Messages /\ Mailed' = Mailed
  BY <1>1, SameConfig DEF Mailed
<1>3. diagnostics = 0 /\ working = {}
  BY <1>1 DEF Inv, MainEnds
<1>4. result \in {"Ok", "worker panicked"}
  <2>1. ~Told
    BY <1>1, <1>3 DEF Told
  <2>2. result \notin {"Err", "FatalError", "import assertion"}
    BY <2>1 DEF Inv, ErrorsTold
  <2>3. result # "none"
    BY <1>1 DEF Inv, Counted
  <2> QED
    BY <2>2, <2>3 DEF Inv, Typed, Panics
<1>5. \/ main' = "failed" /\ result = "Ok"
      \/ main' = "done" /\ result = "Ok"
      \/ main' = "bug" /\ result = "worker panicked"
  BY <1>1, <1>4
<1>6. Typed'
  BY <1>1, <1>2, <1>5 DEF Inv, Typed, Final
<1>7. Conserved' /\ Counted'
  BY <1>1 DEF Inv, Conserved, Counted, TokensIn, Ended, RunningExact, Running,
              running_with_any_token, Unread, Loop, Thin
<1>8. Asked'
  BY <1>1, <1>5 DEF Inv, Typed, Asked, Loop, Ended
<1>9. MainEnds'
  BY <1>1, <1>3, <1>5 DEF Inv, Typed, MainEnds, Complete, Thin, Final, AbortIsExplained, Ended
<1>10. ErrorsTold'
  BY <1>1, <1>3, <1>5 DEF Inv, Typed, ErrorsTold, Told
<1>11. Placed' /\ Kept'
  BY <1>1, <1>2 DEF Inv, Placed, Kept, Thin
<1> QED
  BY <1>6, <1>7, <1>8, <1>9, <1>10, <1>11 DEF Inv

\* One codegen unit: the submitted module is new, and is the only message with code.
LEMMA UnitInv ==
  ASSUME Inv, codegen_unit
  PROVE  Inv'
<1>1. /\ UNCHANGED <<config, cgu_messages, diagnostics, coordinator,
                     codegen_state, main_thread_state, work_items, tokens,
                     running_with_own_token, compiled, needs_lto, import_only, result,
                     working, failing, pending, pool, stranded>>
      /\ main = "codegen" /\ next \in CGUs
      /\ \/ SendFromMain(Submission(next)) /\ main' = "wait" /\ next' = next + 1 /\ errors' = errors
         \/ inbox' = inbox /\ main' = "drop" /\ next' = next /\ errors' = TRUE
  BY DEF codegen_unit, Unwind, loopVars, outVars
<1>2. CGUs' = CGUs /\ Messages' = Messages /\ Mailed' = MailedIn(inbox')
  BY <1>1, SameConfig
<1>3. Len(config.cgus) \in Nat /\ CGUs = 1..Len(config.cgus)
  BY ConfigsAssumption DEF Inv, Typed, CGUs
<1>4. codegen_state # "Completed" /\ ~Thin
  BY <1>1 DEF Inv, MainEnds, Complete
<1>5. CASE inbox' = inbox /\ main' = "drop" /\ next' = next /\ errors' = TRUE
  <2>1. Mailed' = Mailed
    BY <1>2, <1>5 DEF Mailed
  <2>2. errors' \in BOOLEAN
    BY <1>5, Zenon
  <2>3. Typed'
    BY <1>1, <1>2, <1>5, <2>2 DEF Inv, Typed
  <2>4. Conserved' /\ Counted'
    BY <1>1, <1>5 DEF Inv, Conserved, Counted, TokensIn, Ended, RunningExact, Running,
                      running_with_any_token, Unread, Loop, Thin
  <2>5. Asked'
    BY <1>1, <1>5 DEF Inv, Typed, Asked, Loop
  <2>6. MainEnds' /\ ErrorsTold'
    BY <1>1, <1>5 DEF Inv, Typed, MainEnds, Complete, Thin, Final, AbortIsExplained, Ended,
                      ErrorsTold, Told
  <2>7. Placed' /\ Kept'
    BY <1>1, <1>2, <1>5, <2>1 DEF Inv, Placed, Kept, Thin
  <2> QED
    BY <2>3, <2>4, <2>5, <2>6, <2>7 DEF Inv
<1>6. CASE SendFromMain(Submission(next)) /\ main' = "wait" /\ next' = next + 1 /\ errors' = errors
  <2>1. next' \in 1..(Len(config.cgus) + 1) /\ next \in Nat
    BY <1>1, <1>3, <1>6
  <2>2. CASE Loop
    <3> DEFINE m == Submission(next)
    <3>1. inbox' = Append(inbox, m) /\ m \in Messages /\ inbox \in Seq(Messages)
      BY <1>1, <1>6, <2>2, NewMessages DEF SendFromMain, Loop, Inv, Typed
    <3>2. /\ m.type \in {"CodegenDone", "AddImportOnlyModule"} /\ m.cgu = next
          /\ m.type = "AddImportOnlyModule" => config.lto # "No"
      <4>1. config.lto = "No" => config.cgus[next] # "PreLto"
        <5>1. config.cgus \in Seq(IF config.lto = "No" THEN {"No", "PostLto"} ELSE {"No", "PreLto"})
          BY ConfigsAssumption DEF Inv, Typed
        <5> QED
          BY <1>1, <1>3, <5>1
      <4> QED
        BY <4>1 DEF Submission
    <3>3. /\ inbox' \in Seq(Messages)
          /\ DOMAIN inbox' = DOMAIN inbox \cup {Len(inbox) + 1} /\ Len(inbox) + 1 \notin DOMAIN inbox
          /\ \A i \in DOMAIN inbox : inbox'[i] = inbox[i]
          /\ inbox'[Len(inbox) + 1] = m
          /\ TokensIn(inbox') = TokensIn(inbox) /\ Results(inbox') = Results(inbox)
          /\ Mailed' = Mailed \cup {next}
      BY <1>1, <1>2, <3>1, <3>2, Sent DEF IsToken, Carries, Mailed
    <3> HIDE DEF m
    <3>4. Typed'
      BY <1>1, <1>2, <1>6, <2>1, <3>3 DEF Inv, Typed
    <3>5. Conserved' /\ Counted'
      BY <1>1, <1>6, <2>2, <3>3 DEF Inv, Conserved, Counted, TokensIn, Ended, RunningExact, Running,
                        running_with_any_token, Unread, Results, Loop, Thin
    <3>6. Asked'
      BY <1>1, <1>4, <1>6, <2>2, <3>2, <3>3 DEF Inv, Typed, Asked, Loop, Reply
    <3>7. MainEnds' /\ ErrorsTold'
      BY <1>1, <1>4, <1>6, <2>2, <3>2, <3>3 DEF Inv, Typed, MainEnds, Complete, Thin, Final,
                        AbortIsExplained, Ended, ErrorsTold, Told, Loop
    <3>8. Placed'
      <4>1. next \notin work_items \cup working \cup failing \cup Mailed \cup compiled
                        \cup needs_lto \cup import_only
        BY <2>1 DEF Inv, Placed
      <4>2. \A i \in DOMAIN inbox : Carries(inbox[i]) => inbox[i].cgu # next
        BY <1>1, <4>1 DEF Mailed, MailedIn
      <4>3. \A i, j \in DOMAIN inbox' :
              Carries(inbox'[i]) /\ Carries(inbox'[j]) /\ inbox'[i].cgu = inbox'[j].cgu => i = j
        BY <3>2, <3>3, <4>2 DEF Inv, Placed
      <4>4. \A c \in work_items \cup working \cup failing \cup Mailed \cup compiled
                     \cup needs_lto \cup import_only \cup {next} : c < next + 1
        BY <1>3, <2>1, <4>1 DEF Inv, Placed, Typed, Mailed, MailedIn
      <4> QED
        BY <1>1, <1>6, <3>3, <4>1, <4>3, <4>4 DEF Inv, Placed
    <3>9. Kept'
      BY <1>1, <1>2, <1>3, <1>4, <1>6, <2>1, <3>2, <3>3 DEF Inv, Kept, Thin
    <3> QED
      BY <3>4, <3>5, <3>6, <3>7, <3>8, <3>9 DEF Inv
  <2>3. CASE ~Loop
    <3>1. Ended /\ inbox' = inbox /\ result \notin {"none", "Ok"}
      BY <1>4, <1>6, <2>3 DEF SendFromMain, Loop, Thin, Ended, Inv, Typed, Counted, Kept
    <3>2. Mailed' = Mailed
      BY <1>2, <3>1 DEF Mailed
    <3>3. Typed'
      BY <1>1, <1>2, <1>6, <2>1, <3>1 DEF Inv, Typed
    <3>4. Conserved' /\ Counted'
      BY <1>1, <3>1 DEF Inv, Conserved, Counted, TokensIn, Ended, RunningExact, Running,
                        running_with_any_token, Unread, Loop, Thin
    <3>5. Asked'
      BY <1>1, <1>6, <2>3, <3>1 DEF Inv, Typed, Asked, Loop
    <3>6. MainEnds' /\ ErrorsTold'
      BY <1>1, <1>6, <3>1 DEF Inv, Typed, MainEnds, Complete, Thin, Final, AbortIsExplained, Ended,
                        ErrorsTold, Told
    <3>7. Placed'
      <4>1. \A c \in work_items \cup working \cup failing \cup Mailed \cup compiled
                     \cup needs_lto \cup import_only : c < next + 1
        BY <1>3, <2>1 DEF Inv, Placed, Typed, Mailed, MailedIn
      <4> QED
        BY <1>1, <1>6, <3>1, <3>2, <4>1 DEF Inv, Placed
    <3>8. Kept'
      BY <1>1, <1>2, <1>6, <3>1, <3>2 DEF Inv, Kept, Thin
    <3> QED
      BY <3>3, <3>4, <3>5, <3>6, <3>7, <3>8 DEF Inv
  <2> QED
    BY <2>2, <2>3
<1> QED
  BY <1>1, <1>5, <1>6

\* codegen_finished: from here on no code is asked for.
LEMMA FinishedInv ==
  ASSUME Inv, codegen_finished
  PROVE  Inv'
<1> DEFINE m == [type |-> "CodegenComplete"]
<1>1. /\ UNCHANGED <<config, next, errors, cgu_messages, diagnostics, coordinator,
                     codegen_state, main_thread_state, work_items, tokens,
                     running_with_own_token, compiled, needs_lto, import_only, result,
                     working, failing, pending, pool, stranded>>
      /\ main = "codegen" /\ next \notin CGUs /\ SendFromMain(m) /\ main' = "last_check"
  BY DEF codegen_finished, loopVars, outVars
<1>2. CGUs' = CGUs /\ Messages' = Messages /\ Mailed' = MailedIn(inbox')
  BY <1>1, SameConfig
<1>3. codegen_state # "Completed" /\ ~Thin
  BY <1>1 DEF Inv, MainEnds, Complete
<1>4. next = Len(config.cgus) + 1
  <2>1. Len(config.cgus) \in Nat
    BY ConfigsAssumption DEF Inv, Typed
  <2> QED
    BY <1>1, <2>1 DEF Inv, Typed, CGUs
<1>5. CASE Loop
  <2>1. inbox' = Append(inbox, m) /\ m \in Messages /\ inbox \in Seq(Messages)
    BY <1>1, <1>5, NewMessages DEF SendFromMain, Loop, Inv, Typed
  <2>2. /\ inbox' \in Seq(Messages)
        /\ DOMAIN inbox' = DOMAIN inbox \cup {Len(inbox) + 1} /\ Len(inbox) + 1 \notin DOMAIN inbox
        /\ \A i \in DOMAIN inbox : inbox'[i] = inbox[i]
        /\ inbox'[Len(inbox) + 1] = m
        /\ TokensIn(inbox') = TokensIn(inbox) /\ Results(inbox') = Results(inbox)
        /\ Mailed' = Mailed
    <3>1. ~IsToken(m) /\ m.type # "WorkItem" /\ ~Carries(m)
      BY DEF IsToken, Carries
    <3> HIDE DEF m
    <3> QED
      <4>1. {c \in CGUs : Carries(m) /\ m.cgu = c} = {}
        BY <3>1
      <4>2. Mailed' = Mailed
        <5>1. Mailed = MailedIn(inbox)
          BY DEF Mailed
        <5>2. MailedIn(Append(inbox, m)) = MailedIn(inbox)
          <6>1. MailedIn(Append(inbox, m)) = MailedIn(inbox) \cup {c \in CGUs : Carries(m) /\ m.cgu = c}
            BY <2>1, Sent
          <6> QED
            BY <6>1, <4>1
        <5> QED
          BY <1>2, <2>1, <5>1, <5>2, Zenon
      <4>3. TokensIn(inbox') = TokensIn(inbox) /\ Results(inbox') = Results(inbox)
        BY <2>1, <3>1, Sent
      <4> QED
        BY <2>1, <4>2, <4>3, Sent
  <2>3. Typed'
    BY <1>1, <1>2, <2>2 DEF Inv, Typed
  <2>4. Conserved' /\ Counted'
    BY <1>1, <1>5, <2>2 DEF Inv, Conserved, Counted, TokensIn, Ended, RunningExact, Running,
                        running_with_any_token, Unread, Results, Loop, Thin
  <2>5. Asked'
    BY <1>1, <1>3, <1>5, <2>2 DEF Inv, Typed, Asked, Loop, Reply
  <2>8. MainEnds'
    BY <1>1, <1>3, <1>4, <1>5, <2>2 DEF Inv, Typed, MainEnds, Complete, Thin, Final,
                        AbortIsExplained, Ended, Loop
  <2>6. ErrorsTold'
    <3>1. Told => Told'
      BY <1>1 DEF Told
    <3>2. \A i \in DOMAIN inbox' : inbox'[i].type # "CodegenComplete" => i \in DOMAIN inbox
      BY <2>2
    <3> HIDE DEF m
    <3> QED
      BY <1>1, <2>2, <3>1, <3>2 DEF Inv, ErrorsTold
  <2>7. Placed' /\ Kept'
    BY <1>1, <1>2, <2>2 DEF Inv, Placed, Kept, Thin, Carries
  <2> QED
    BY <2>3, <2>4, <2>5, <2>6, <2>7, <2>8 DEF Inv
<1>6. CASE ~Loop
  <2>1. Ended /\ inbox' = inbox
    BY <1>1, <1>3, <1>6 DEF SendFromMain, Loop, Thin, Ended, Inv, Typed
  <2>2. Mailed' = Mailed
    BY <1>2, <2>1 DEF Mailed
  <2>3. Typed'
    BY <1>1, <1>2, <2>1 DEF Inv, Typed
  <2>4. Conserved' /\ Counted'
    BY <1>1, <2>1 DEF Inv, Conserved, Counted, TokensIn, Ended, RunningExact, Running,
                      running_with_any_token, Unread, Loop, Thin
  <2>5. Asked'
    BY <1>1, <1>6, <2>1 DEF Inv, Typed, Asked, Loop
  <2>6. MainEnds' /\ ErrorsTold'
    BY <1>1, <2>1 DEF Inv, Typed, MainEnds, Complete, Thin, Final, AbortIsExplained, Ended,
                      ErrorsTold, Told
  <2>7. Placed' /\ Kept'
    BY <1>1, <1>2, <2>1, <2>2 DEF Inv, Placed, Kept, Thin
  <2> QED
    BY <2>3, <2>4, <2>5, <2>6, <2>7 DEF Inv
<1> QED
  BY <1>5, <1>6

\* Coordinator::drop: the error is known to the main thread when it sends the abort.
LEMMA DropInv ==
  ASSUME Inv, drop
  PROVE  Inv'
<1> DEFINE m == [type |-> "CodegenAborted"]
<1>1. /\ UNCHANGED <<config, next, errors, cgu_messages, diagnostics, coordinator,
                     codegen_state, main_thread_state, work_items, tokens,
                     running_with_own_token, compiled, needs_lto, import_only, result,
                     working, failing, pending, pool, stranded>>
      /\ \/ main = "drop" /\ main' = "dropping" /\ SendFromMain(m)
         \/ main = "dropping" /\ Ended /\ main' = "failed" /\ inbox' = inbox
  BY DEF drop, loopVars, outVars
<1>2. CGUs' = CGUs /\ Messages' = Messages /\ Mailed' = MailedIn(inbox')
  BY <1>1, SameConfig
<1>3. CASE Loop /\ main = "drop" /\ main' = "dropping" /\ SendFromMain(m)
  <2>1. inbox' = Append(inbox, m) /\ m \in Messages /\ inbox \in Seq(Messages)
    BY <1>3, NewMessages DEF SendFromMain, Loop, Inv, Typed
  <2>2. /\ inbox' \in Seq(Messages)
        /\ DOMAIN inbox' = DOMAIN inbox \cup {Len(inbox) + 1} /\ Len(inbox) + 1 \notin DOMAIN inbox
        /\ \A i \in DOMAIN inbox : inbox'[i] = inbox[i]
        /\ inbox'[Len(inbox) + 1] = m
        /\ TokensIn(inbox') = TokensIn(inbox) /\ Results(inbox') = Results(inbox)
        /\ Mailed' = Mailed
    <3>1. ~IsToken(m) /\ m.type # "WorkItem" /\ ~Carries(m)
      BY DEF IsToken, Carries
    <3> HIDE DEF m
    <3> QED
      <4>1. {c \in CGUs : Carries(m) /\ m.cgu = c} = {}
        BY <3>1
      <4>2. Mailed' = Mailed
        <5>1. Mailed = MailedIn(inbox)
          BY DEF Mailed
        <5>2. MailedIn(Append(inbox, m)) = MailedIn(inbox)
          <6>1. MailedIn(Append(inbox, m)) = MailedIn(inbox) \cup {c \in CGUs : Carries(m) /\ m.cgu = c}
            BY <2>1, Sent
          <6> QED
            BY <6>1, <4>1
        <5> QED
          BY <1>2, <2>1, <5>1, <5>2, Zenon
      <4>3. TokensIn(inbox') = TokensIn(inbox) /\ Results(inbox') = Results(inbox)
        BY <2>1, <3>1, Sent
      <4> QED
        BY <2>1, <4>2, <4>3, Sent
  <2>3. Typed'
    BY <1>1, <1>2, <1>3, <2>2 DEF Inv, Typed
  <2>4. Conserved' /\ Counted'
    BY <1>1, <1>3, <2>2 DEF Inv, Conserved, Counted, TokensIn, Ended, RunningExact, Running,
                        running_with_any_token, Unread, Results, Loop, Thin
  <2>5. Asked'
    BY <1>1, <1>3, <2>2 DEF Inv, Typed, Asked, Loop, Reply
  <2>6. MainEnds' /\ ErrorsTold'
    BY <1>1, <1>3, <2>2 DEF Inv, Typed, MainEnds, Complete, Thin, Final,
                        AbortIsExplained, Ended, ErrorsTold, Told, Loop
  <2>7. Placed' /\ Kept'
    BY <1>1, <1>2, <2>2 DEF Inv, Placed, Kept, Thin, Carries
  <2> QED
    BY <2>3, <2>4, <2>5, <2>6, <2>7 DEF Inv
<1>4. CASE /\ inbox' = inbox
           /\ \/ main = "drop" /\ main' = "dropping"
              \/ main = "dropping" /\ main' = "failed" /\ Ended
  <2>2. Mailed' = Mailed
    BY <1>2, <1>4 DEF Mailed
  <2>3. Typed'
    BY <1>1, <1>2, <1>4 DEF Inv, Typed, Final
  <2>4. Conserved' /\ Counted'
    BY <1>1, <1>4 DEF Inv, Conserved, Counted, TokensIn, Ended, RunningExact, Running,
                      running_with_any_token, Unread, Loop, Thin
  <2>5. Asked'
    BY <1>1, <1>4 DEF Inv, Typed, Asked, Loop
  <2>6. MainEnds' /\ ErrorsTold'
    BY <1>1, <1>4 DEF Inv, Typed, MainEnds, Complete, Thin, Final, AbortIsExplained, Ended,
                      ErrorsTold, Told
  <2>7. Placed' /\ Kept'
    BY <1>1, <1>2, <1>4, <2>2 DEF Inv, Placed, Kept, Thin
  <2> QED
    BY <2>3, <2>4, <2>5, <2>6, <2>7 DEF Inv
<1> QED
  BY <1>1, <1>3, <1>4 DEF SendFromMain, Loop

-----------------------------------------------------------------------------
(* Workers and the helper thread.                                          *)

\* Sending to the coordinator.
LEMMA Arrives ==
  ASSUME Inv, NEW m \in Messages, Send(m), config' = config
  PROVE  /\ inbox' \in Seq(Messages)
         /\ Ended => inbox' = inbox /\ Mailed' = Mailed
         /\ ~Ended =>
              /\ DOMAIN inbox' = DOMAIN inbox \cup {Len(inbox) + 1}
              /\ Len(inbox) + 1 \notin DOMAIN inbox
              /\ \A i \in DOMAIN inbox : inbox'[i] = inbox[i]
              /\ inbox'[Len(inbox) + 1] = m
              /\ TokensIn(inbox') = TokensIn(inbox) + (IF IsToken(m) THEN 1 ELSE 0)
              /\ Results(inbox') = Results(inbox) + (IF m.type = "WorkItem" THEN 1 ELSE 0)
              /\ Mailed' = Mailed \cup {c \in CGUs : Carries(m) /\ m.cgu = c}
         /\ TokensIn(inbox) \in Nat /\ Results(inbox) \in Nat
BY SameConfig, Sent DEF Send, Inv, Typed, Mailed

\* A worker ends: its module moves to the inbox.
LEMMA EndsInv ==
  ASSUME Inv, NEW cgu \in CGUs, worker_ends(cgu)
  PROVE  Inv'
<1>1. /\ UNCHANGED <<config, main, next, errors, cgu_messages, diagnostics, coordinator,
                     codegen_state, main_thread_state, work_items, tokens,
                     running_with_own_token, compiled, needs_lto, import_only, result,
                     failing, pending, pool, stranded>>
      /\ cgu \in working /\ working' = working \ {cgu}
  BY DEF worker_ends, mainVars, loopVars, outVars
<1>2. PICK res \in {"ok", "panic"} : Send(WorkItem(cgu, res))
  BY DEF worker_ends
<1> DEFINE m == WorkItem(cgu, res)
<1>3. m \in Messages /\ m.type = "WorkItem" /\ m.cgu = cgu /\ m.res # "fatal" /\ Send(m)
  BY <1>2, NewMessages DEF WorkItem
<1>4. CGUs' = CGUs /\ Messages' = Messages
  BY <1>1, SameConfig
<1>5. /\ inbox' \in Seq(Messages)
      /\ Ended => inbox' = inbox /\ Mailed' = Mailed
      /\ ~Ended => /\ DOMAIN inbox' = DOMAIN inbox \cup {Len(inbox) + 1}
                   /\ Len(inbox) + 1 \notin DOMAIN inbox
                   /\ \A i \in DOMAIN inbox : inbox'[i] = inbox[i]
                   /\ inbox'[Len(inbox) + 1] = m
                   /\ TokensIn(inbox') = TokensIn(inbox)
                   /\ Results(inbox') = Results(inbox) + 1
                   /\ Mailed' = Mailed \cup {cgu}
      /\ TokensIn(inbox) \in Nat /\ Results(inbox) \in Nat
  <2>1. ~IsToken(m) /\ {c \in CGUs : Carries(m) /\ m.cgu = c} = {cgu}
    BY <1>3 DEF IsToken, Carries
  <2> HIDE DEF m
  <2> QED
    <3>1. ~Ended => Mailed' = Mailed \cup {cgu}
      BY <1>1, <1>2, <1>3, <2>1, Arrives
    <3>2. ~Ended => TokensIn(inbox') = TokensIn(inbox) /\ Results(inbox') = Results(inbox) + 1
      BY <1>1, <1>2, <1>3, <2>1, Arrives
    <3> QED
      BY <1>1, <1>2, <1>3, <3>1, <3>2, Arrives
<1> HIDE DEF m
<1>6. Cardinality(working') = Cardinality(working) - 1 /\ Cardinality(working) \in Nat
      /\ Cardinality(failing) \in Nat
  BY <1>1, CountOne, CountCGUs DEF Inv, Typed
<1>7. Typed'
  BY <1>1, <1>4, <1>5 DEF Inv, Typed
<1>8. Conserved'
  BY <1>1, <1>5 DEF Inv, Conserved, Loop, Ended
<1>9. Counted'
  <2>1. Results(inbox) = Cardinality(Unread) /\ Results(inbox') = Cardinality(Unread')
    BY DEF Results, Unread
  <2>2. RunningExact'
    BY <1>1, <1>5, <1>6, <2>1 DEF Inv, Counted, Ended, RunningExact, Running, running_with_any_token
  <2> QED
    BY <1>1, <2>2 DEF Inv, Counted, Ended, Loop, Thin
<1>10. Asked'
  BY <1>1, <1>3, <1>5 DEF Inv, Typed, Asked, Loop, Reply, Ended
<1>11. MainEnds' /\ ErrorsTold'
  BY <1>1, <1>3, <1>5 DEF Inv, Typed, MainEnds, Complete, Thin, Final,
                      AbortIsExplained, Ended, ErrorsTold, Told
<1>12. Placed'
  <2>1. \A i \in DOMAIN inbox : Carries(inbox[i]) => inbox[i].cgu # cgu
    BY <1>1 DEF Inv, Placed, Mailed, MailedIn
  <2> QED
    BY <1>1, <1>3, <1>5, <2>1 DEF Inv, Placed
<1>13. Kept'
  BY <1>1, <1>3, <1>4, <1>5 DEF Inv, Kept, Counted, Thin, Ended
<1> QED
  BY <1>7, <1>8, <1>9, <1>10, <1>11, <1>12, <1>13 DEF Inv

\* A worker emits its fatal error before it reports it.
LEMMA EmitsInv ==
  ASSUME Inv, NEW cgu \in CGUs, worker_emits(cgu)
  PROVE  Inv'
<1>1. /\ UNCHANGED <<config, main, next, errors, inbox, cgu_messages, coordinator,
                     codegen_state, main_thread_state, work_items, tokens,
                     running_with_own_token, compiled, needs_lto, import_only, result,
                     pending, pool, stranded>>
      /\ cgu \in working /\ working' = working \ {cgu} /\ failing' = failing \cup {cgu}
      /\ diagnostics' = diagnostics + 1
  BY DEF worker_emits, mainVars, loopVars, outVars
<1>2. CGUs' = CGUs /\ Messages' = Messages /\ Mailed' = Mailed
  BY <1>1, SameConfig DEF Mailed
<1>3. Cardinality(working') = Cardinality(working) - 1 /\ Cardinality(working) \in Nat
      /\ Cardinality(failing') = Cardinality(failing) + 1 /\ Cardinality(failing) \in Nat
  BY <1>1, CountOne, CountCGUs DEF Inv, Typed, Placed
<1>4. Typed'
  BY <1>1, <1>2 DEF Inv, Typed
<1>5. Conserved'
  BY <1>1 DEF Inv, Conserved, Loop, Ended, TokensIn
<1>6. Counted'
  BY <1>1, <1>3 DEF Inv, Counted, Ended, RunningExact, Running,
                    running_with_any_token, Unread, Loop, Thin
<1>7. Asked'
  BY <1>1 DEF Inv, Typed, Asked, Loop
<1>8. MainEnds'
  BY <1>1 DEF Inv, Typed, MainEnds, Complete, Thin, Final, AbortIsExplained, Ended
<1>10. ErrorsTold'
  <2>1. Told'
    BY <1>1 DEF Inv, Typed, Told
  <2> QED
    BY <2>1 DEF ErrorsTold
<1>9. Placed' /\ Kept'
  BY <1>1, <1>2 DEF Inv, Placed, Kept, Thin
<1> QED
  BY <1>4, <1>5, <1>6, <1>7, <1>8, <1>9, <1>10 DEF Inv

\* A worker that copies a reused unit emits an error and goes on.
LEMMA CopyFailsInv ==
  ASSUME Inv, NEW cgu \in CGUs, worker_copy_fails(cgu)
  PROVE  Inv'
<1>1. /\ UNCHANGED <<config, main, next, errors, inbox, cgu_messages, coordinator,
                     codegen_state, main_thread_state, work_items, tokens,
                     running_with_own_token, compiled, needs_lto, import_only, result,
                     working, failing, pending, pool, stranded>>
      /\ cgu \in working /\ diagnostics' = diagnostics + 1
  BY DEF worker_copy_fails, mainVars, loopVars, outVars
<1>2. CGUs' = CGUs /\ Messages' = Messages /\ Mailed' = Mailed
  BY <1>1, SameConfig DEF Mailed
<1>3. Typed'
  BY <1>1, <1>2 DEF Inv, Typed
<1>4. Conserved'
  BY <1>1 DEF Inv, Conserved, Loop, Ended, TokensIn
<1>5. Counted'
  BY <1>1 DEF Inv, Counted, Ended, RunningExact, Running,
              running_with_any_token, Unread, Loop, Thin
<1>6. Asked'
  BY <1>1 DEF Inv, Typed, Asked, Loop
<1>7. MainEnds'
  BY <1>1 DEF Inv, Typed, MainEnds, Complete, Thin, Final, AbortIsExplained, Ended
<1>8. ErrorsTold'
  <2>1. Told'
    BY <1>1 DEF Inv, Typed, Told
  <2> QED
    BY <2>1 DEF ErrorsTold
<1>9. Placed' /\ Kept'
  BY <1>1, <1>2 DEF Inv, Placed, Kept, Thin
<1> QED
  BY <1>3, <1>4, <1>5, <1>6, <1>7, <1>8, <1>9 DEF Inv

\* A worker reports its failure: the coordinator aborts after the error was told.
LEMMA FailsInv ==
  ASSUME Inv, NEW cgu \in CGUs, worker_fails(cgu)
  PROVE  Inv'
<1> DEFINE m == WorkItem(cgu, "fatal")
<1>1. /\ UNCHANGED <<config, main, next, errors, cgu_messages, diagnostics, coordinator,
                     codegen_state, main_thread_state, work_items, tokens,
                     running_with_own_token, compiled, needs_lto, import_only, result,
                     working, pending, pool, stranded>>
      /\ cgu \in failing /\ failing' = failing \ {cgu} /\ Send(m)
  BY DEF worker_fails, mainVars, loopVars, outVars
<1>3. m \in Messages /\ m.type = "WorkItem" /\ m.cgu = cgu
  BY NewMessages DEF WorkItem
<1>4. CGUs' = CGUs /\ Messages' = Messages
  BY <1>1, SameConfig
<1>5. /\ inbox' \in Seq(Messages)
      /\ Ended => inbox' = inbox /\ Mailed' = Mailed
      /\ ~Ended => /\ DOMAIN inbox' = DOMAIN inbox \cup {Len(inbox) + 1}
                   /\ Len(inbox) + 1 \notin DOMAIN inbox
                   /\ \A i \in DOMAIN inbox : inbox'[i] = inbox[i]
                   /\ inbox'[Len(inbox) + 1] = m
                   /\ TokensIn(inbox') = TokensIn(inbox)
                   /\ Results(inbox') = Results(inbox) + 1
                   /\ Mailed' = Mailed \cup {cgu}
      /\ TokensIn(inbox) \in Nat /\ Results(inbox) \in Nat
  <2>1. ~IsToken(m) /\ {c \in CGUs : Carries(m) /\ m.cgu = c} = {cgu}
    BY <1>3 DEF IsToken, Carries
  <2> HIDE DEF m
  <2> QED
    <3>1. ~Ended => Mailed' = Mailed \cup {cgu}
      BY <1>1, <1>3, <2>1, Arrives
    <3>2. ~Ended => TokensIn(inbox') = TokensIn(inbox) /\ Results(inbox') = Results(inbox) + 1
      BY <1>1, <1>3, <2>1, Arrives
    <3> QED
      BY <1>1, <1>3, <3>1, <3>2, Arrives
<1> HIDE DEF m
<1>6. Cardinality(failing') = Cardinality(failing) - 1 /\ Cardinality(working) \in Nat
      /\ Cardinality(failing) \in Nat
  BY <1>1, CountOne, CountCGUs DEF Inv, Typed
<1>7. Typed'
  BY <1>1, <1>4, <1>5 DEF Inv, Typed
<1>8. Conserved'
  BY <1>1, <1>5 DEF Inv, Conserved, Loop, Ended
<1>9. Counted'
  <2>1. Results(inbox) = Cardinality(Unread) /\ Results(inbox') = Cardinality(Unread')
    BY DEF Results, Unread
  <2>2. RunningExact'
    BY <1>1, <1>5, <1>6, <2>1 DEF Inv, Counted, Ended, RunningExact, Running, running_with_any_token
  <2> QED
    BY <1>1, <2>2 DEF Inv, Counted, Ended, Loop, Thin
<1>10. Asked'
  BY <1>1, <1>3, <1>5 DEF Inv, Typed, Asked, Loop, Reply, Ended
<1>11. MainEnds' /\ ErrorsTold'
  BY <1>1, <1>3, <1>5 DEF Inv, Typed, MainEnds, Complete, Thin, Final,
                      AbortIsExplained, Ended, ErrorsTold, Told
<1>12. Placed'
  <2>1. \A i \in DOMAIN inbox : Carries(inbox[i]) => inbox[i].cgu # cgu
    BY <1>1 DEF Inv, Placed, Mailed, MailedIn
  <2> QED
    BY <1>1, <1>3, <1>5, <2>1 DEF Inv, Placed
<1>13. Kept'
  BY <1>1, <1>3, <1>4, <1>5 DEF Inv, Kept, Counted, Thin, Ended
<1> QED
  BY <1>7, <1>8, <1>9, <1>10, <1>11, <1>12, <1>13 DEF Inv

\* The helper thread moves a token from the jobserver to the inbox, or an error.
LEMMA HelperInv ==
  ASSUME Inv, helper
  PROVE  Inv'
<1>1. /\ UNCHANGED <<config, main, next, errors, cgu_messages, diagnostics, coordinator,
                     codegen_state, main_thread_state, work_items, tokens,
                     running_with_own_token, compiled, needs_lto, import_only, result,
                     working, failing, stranded>>
      /\ pending > 0 /\ pending' = pending - 1
  BY DEF helper, mainVars, loopVars, outVars
<1>2. PICK m \in Messages :
        /\ m.type = "Token" /\ Send(m)
        /\ IF IsToken(m) THEN pool > 0 /\ pool' = pool - 1 ELSE pool' = pool
  BY NewMessages DEF helper, IsToken
<1>3. ~Ended
  BY <1>1 DEF Inv, Conserved, Loop
<1>4. CGUs' = CGUs /\ Messages' = Messages
  BY <1>1, SameConfig
<1>5. /\ inbox' \in Seq(Messages)
      /\ DOMAIN inbox' = DOMAIN inbox \cup {Len(inbox) + 1}
      /\ Len(inbox) + 1 \notin DOMAIN inbox
      /\ \A i \in DOMAIN inbox : inbox'[i] = inbox[i]
      /\ inbox'[Len(inbox) + 1] = m
      /\ TokensIn(inbox') = TokensIn(inbox) + (IF IsToken(m) THEN 1 ELSE 0)
      /\ Results(inbox') = Results(inbox)
      /\ Mailed' = Mailed
      /\ TokensIn(inbox) \in Nat /\ Results(inbox) \in Nat
  BY <1>1, <1>2, <1>3, Arrives DEF Carries
<1>7. Typed'
  BY <1>1, <1>2, <1>4, <1>5 DEF Inv, Typed
<1>8. Conserved'
  BY <1>1, <1>2, <1>3, <1>5 DEF Inv, Conserved, Loop, Ended, Typed
<1>9. Counted'
  BY <1>1, <1>3, <1>5 DEF Inv, Counted, Ended, RunningExact, Running,
                          running_with_any_token, Unread, Results, Loop, Thin
<1>10. Asked'
  BY <1>1, <1>2, <1>5 DEF Inv, Typed, Asked, Loop, Reply
<1>11. MainEnds' /\ ErrorsTold'
  BY <1>1, <1>2, <1>3, <1>5 DEF Inv, Typed, MainEnds, Complete, Thin, Final,
                      AbortIsExplained, Ended, ErrorsTold, Told
<1>12. Placed' /\ Kept'
  BY <1>1, <1>2, <1>4, <1>5 DEF Inv, Placed, Kept, Thin, Carries
<1> QED
  BY <1>7, <1>8, <1>9, <1>10, <1>11, <1>12 DEF Inv

-----------------------------------------------------------------------------
(* The coordinator: how it ends, and how it starts workers.                *)

\* Nobody works and no result is under way when the count says so.
LEMMA NobodyWorks ==
  ASSUME Inv, ~Ended, Running = 0
  PROVE  working = {} /\ failing = {} /\ \A i \in DOMAIN inbox : inbox[i].type # "WorkItem"
<1>1. Results(inbox) = Cardinality(Unread) /\ inbox \in Seq(Messages)
  BY DEF Results, Unread, Inv, Typed
<1>2. Cardinality(working) \in Nat /\ Cardinality(failing) \in Nat /\ Results(inbox) \in Nat
  <2>1. [type |-> "CodegenComplete"] \in Messages
    BY NewMessages
  <2>2. Results(inbox) \in Nat
    BY <1>1, <2>1, Sent
  <2> QED
    BY <2>2, CountCGUs DEF Inv, Typed
<1>3. Cardinality(working) = 0 /\ Cardinality(failing) = 0 /\ Cardinality(Unread) = 0
  BY <1>1, <1>2 DEF Inv, Counted, RunningExact
<1>4. working = {} /\ failing = {}
  BY <1>3, CountCGUs DEF Inv, Typed
<1>5. Unread = {}
  <2>1. IsFiniteSet(1..Len(inbox)) /\ Unread \subseteq 1..Len(inbox)
    BY <1>1, FS_Interval DEF Unread
  <2> QED
    BY <1>3, <2>1, FS_Subset, FS_EmptySet
<1> QED
  BY <1>4, <1>5 DEF Unread

\* What each way to end requires.
MayEnd(r) ==
  /\ r \in {"Ok", "Err", "FatalError"} \cup Panics
  /\ r \in {"Ok", "Err", "FatalError"} => working = {} /\ failing = {}
  /\ r \in {"Err", "FatalError", "import assertion"} => Told
  /\ r = "Ok" => /\ codegen_state = "Completed" /\ work_items = {} /\ Mailed = {}
                 /\ config.lto # "Fat" => needs_lto = {} /\ import_only = {}

\* The end of the coordinator.
LEMMA EndInv ==
  ASSUME Inv, ~Ended, NEW r, MayEnd(r), EndWith(r)
  PROVE  Inv'
<1>1. /\ UNCHANGED <<config, main, next, errors, cgu_messages, diagnostics, codegen_state,
                     main_thread_state, work_items, running_with_own_token,
                     compiled, needs_lto, import_only, working, failing>>
      /\ coordinator' = "ended" /\ result' = r
      /\ pool' = pool + tokens + TokensIn(inbox) + stranded
      /\ tokens' = 0 /\ inbox' = <<>> /\ pending' = 0 /\ stranded' = 0
  BY DEF EndWith, mainVars, outVars
<1>2. DOMAIN inbox' = {} /\ inbox' \in Seq(Messages)
  BY <1>1, NothingIn, Zenon
<1>3. CGUs' = CGUs /\ Messages' = Messages /\ Mailed' = {}
  <2>1. MailedIn(inbox') = {}
    BY <1>2 DEF MailedIn
  <2> QED
    BY <1>1, <2>1, SameConfig
<1>4. TokensIn(inbox) \in Nat /\ TokensIn(inbox') = 0
  <2>1. [type |-> "CodegenComplete"] \in Messages /\ inbox \in Seq(Messages)
    BY NewMessages DEF Inv, Typed
  <2>2. TokensIn(inbox') = 0
    BY <1>1, NothingIn, Zenon
  <2> QED
    BY <2>1, <2>2, Sent
<1>5. Typed'
  <2>1. r \in {"none", "Ok", "Err", "FatalError"} \cup Panics
    BY DEF MayEnd
  <2>2. pool' \in Nat
    BY <1>1, <1>4 DEF Inv, Typed
  <2> QED
    BY <1>1, <1>2, <1>3, <2>1, <2>2 DEF Inv, Typed
<1>6. Conserved'
  <2>1. pool' = config.available
    <3>1. tokens \in Nat /\ pool \in Nat /\ stranded \in Nat
      BY DEF Inv, Typed
    <3>2. tokens + pool + stranded + TokensIn(inbox) = config.available
      BY DEF Inv, Conserved, Loop
    <3> QED
      BY <1>1, <1>4, <3>1, <3>2
  <2>2. config.available \in Nat
    BY ConfigsAssumption DEF Inv, Typed
  <2> QED
    BY <1>1, <1>4, <2>1, <2>2 DEF Conserved, Loop, Ended
<1>7. Counted'
  BY <1>1 DEF Inv, Counted, RunningExact, Ended, Loop, Thin, Panics, MayEnd
<1>8. Asked'
  BY <1>1, <1>2 DEF Inv, Asked, Loop
<1>9. MainEnds'
  <2>1. main \notin Final \cup {"join"}
    BY DEF Inv, MainEnds
  <2>2. Complete' => Complete
    BY <1>1, <1>2 DEF Complete, Thin
  <2> QED
    BY <1>1, <2>1, <2>2 DEF Inv, MainEnds, Final, AbortIsExplained, Thin, Ended
<1>10. ErrorsTold'
  BY <1>1, <1>2 DEF Inv, ErrorsTold, Told, MayEnd
<1>11. Placed'
  BY <1>1, <1>2, <1>3 DEF Inv, Placed
<1>12. Kept'
  <2>1. result = "none" /\ r # "none"
    BY DEF Inv, Counted, MayEnd, Panics
  <2> QED
    BY <1>1, <1>2, <1>3, <2>1 DEF Inv, Kept, Thin, MayEnd
<1> QED
  BY <1>5, <1>6, <1>7, <1>8, <1>9, <1>10, <1>11, <1>12 DEF Inv

\* Starting workers: `own` of them, and those started now, have a token of their
\* own; the tokens beyond go back, and after an abort none is started.
LEMMA SpawnFacts ==
  ASSUME Inv, NEW state, NEW lent \in SUBSET work_items, NEW own \in Nat, own <= tokens,
         Spawn(state, lent, own)
  PROVE  \E new \in SUBSET (work_items \ lent) :
           /\ work_items' = (work_items \ lent) \ new
           /\ working' = working \cup lent \cup new
           /\ Cardinality(new) \in Nat /\ own + Cardinality(new) <= tokens
           /\ codegen_state = "Aborted" => new = {}
           /\ running_with_own_token' = own + Cardinality(new)
           /\ tokens' = running_with_own_token'
           /\ pool' = pool + tokens - tokens'
           /\ main_thread_state' = state /\ coordinator' = "recv"
<1> DEFINE left == work_items \ lent
           k == Min({free_tokens(own), Cardinality(left)})
<1>1. PICK new \in kSubset(k, left) :
         /\ work_items' = left \ new
         /\ working' = working \cup lent \cup new
         /\ running_with_own_token' = own + Cardinality(new)
  BY DEF Spawn
<1>2. new \subseteq left /\ Cardinality(new) = k
  BY <1>1 DEF kSubset
<1>3. tokens \in Nat /\ left \subseteq CGUs /\ Typed
  BY DEF Inv, Typed
<1>4. Cardinality(left) \in Nat /\ (Cardinality(new) = 0 <=> new = {})
  BY <1>2, <1>3, CountCGUs
<1>5. free_tokens(own) \in Nat /\ free_tokens(own) <= tokens - own
      /\ (codegen_state = "Aborted" => free_tokens(own) = 0)
  BY <1>3 DEF free_tokens
<1>6. k \in Nat /\ k <= free_tokens(own)
  <2>1. k = IF free_tokens(own) <= Cardinality(left) THEN free_tokens(own) ELSE Cardinality(left)
    BY <1>4, <1>5, MinTwo
  <2> QED
    BY <1>4, <1>5, <2>1
<1>7. own + Cardinality(new) <= tokens /\ Cardinality(new) \in Nat
      /\ (codegen_state = "Aborted" => new = {})
  BY <1>2, <1>3, <1>4, <1>5, <1>6
<1>8. tokens' = running_with_own_token'
  <2>1. tokens' = Min({tokens, own + Cardinality(new)})
    BY <1>1 DEF Spawn, truncate
  <2>2. own + Cardinality(new) \in Nat
    BY <1>7
  <2> QED
    BY <1>1, <1>3, <1>7, <2>1, <2>2, MinTwo
<1> QED
  BY <1>1, <1>2, <1>7, <1>8 DEF Spawn

\* A turn of the loop.  The main thread's token is lent only if the main thread
\* has not been asked for code, and is asked only if the token is not lent.
LEMMA SpawnInv ==
  ASSUME Inv, coordinator = "top",
         NEW state \in {"Idle", "Codegenning", "Lending"},
         NEW lent \in SUBSET work_items, NEW own \in Nat, own <= tokens,
         Spawn(state, lent, own),
         running_with_any_token(state, own) = Running + Cardinality(lent),
         codegen_state = "Completed" => state # "Codegenning",
         \/ /\ cgu_messages' = cgu_messages
            /\ main_thread_state = "Codegenning" => state = "Codegenning"
         \/ /\ cgu_messages' = cgu_messages + 1
            /\ main_thread_state # "Codegenning" /\ state = "Codegenning",
         UNCHANGED <<config, mainVars, inbox, diagnostics, codegen_state,
                     outVars, result, failing, pending, stranded>>
  PROVE  Inv'
<1>1. PICK new \in SUBSET (work_items \ lent) :
           /\ work_items' = (work_items \ lent) \ new
           /\ working' = working \cup lent \cup new
           /\ Cardinality(new) \in Nat /\ own + Cardinality(new) <= tokens
           /\ codegen_state = "Aborted" => new = {}
           /\ running_with_own_token' = own + Cardinality(new)
           /\ tokens' = running_with_own_token'
           /\ pool' = pool + tokens - tokens'
           /\ main_thread_state' = state /\ coordinator' = "recv"
  BY SpawnFacts
<1>2. UNCHANGED <<config, main, next, errors, inbox, diagnostics, codegen_state,
                  compiled, needs_lto, import_only, result, failing, pending, stranded>>
  BY DEF mainVars, outVars
<1>3. CGUs' = CGUs /\ Messages' = Messages /\ Mailed' = Mailed
  BY <1>2, SameConfig DEF Mailed
<1>4. /\ ~Ended /\ Loop /\ ~Thin /\ result = "none" /\ tokens \in Nat /\ pool \in Nat
      /\ main \notin Final \cup {"join"}
  BY DEF Ended, Loop, Thin, Inv, Counted, Typed, MainEnds
<1>5. Cardinality(working') = Cardinality(working) + Cardinality(lent) + Cardinality(new)
      /\ Cardinality(working) \in Nat /\ Cardinality(lent) \in Nat
  <2>1. Typed /\ working \subseteq CGUs /\ lent \subseteq CGUs /\ new \subseteq CGUs
        /\ working \cup lent \subseteq CGUs
        /\ working \cap lent = {} /\ (working \cup lent) \cap new = {}
    BY <1>1 DEF Inv, Typed, Placed
  <2>2. Cardinality(working \cup lent) = Cardinality(working) + Cardinality(lent)
    BY <2>1, CountUnion
  <2>3. Cardinality((working \cup lent) \cup new) = Cardinality(working \cup lent) + Cardinality(new)
    BY <2>1, CountUnion
  <2> QED
    BY <1>1, <2>1, <2>2, <2>3, CountCGUs
<1>6. Typed'
  <2>1. cgu_messages' \in 0..1
    <3>1. cgu_messages = 1 => main_thread_state = "Codegenning"
      BY <1>4 DEF Inv, Asked
    <3> QED
      BY <3>1 DEF Inv, Typed
  <2>2. tokens' \in Nat /\ running_with_own_token' \in Nat /\ pool' \in Nat
    BY <1>1, <1>4
  <2> QED
    BY <1>1, <1>2, <1>3, <2>1, <2>2 DEF Inv, Typed
<1>7. Conserved'
  <2>1. TokensIn(inbox) \in Nat /\ TokensIn(inbox') = TokensIn(inbox)
    <3>1. [type |-> "CodegenComplete"] \in Messages /\ inbox \in Seq(Messages)
      BY NewMessages DEF Inv, Typed
    <3> QED
      BY <1>2, <3>1, Sent
  <2>2. tokens' \in Nat /\ pool' \in Nat /\ stranded \in Nat /\ tokens' + pool' = tokens + pool
    BY <1>1, <1>4, <1>6 DEF Inv, Typed
  <2>3. tokens' + pool' + stranded' + TokensIn(inbox') = config'.available
    BY <1>2, <1>4, <2>1, <2>2 DEF Inv, Conserved, Loop
  <2> QED
    BY <1>1, <1>2, <2>3 DEF Inv, Conserved, Loop, Ended
<1>8. Counted'
  <2>1. Cardinality(Unread') = Cardinality(Unread) /\ Cardinality(Unread) \in Nat
        /\ Cardinality(failing) \in Nat
    <3>1. [type |-> "CodegenComplete"] \in Messages /\ inbox \in Seq(Messages)
      BY NewMessages DEF Inv, Typed
    <3>2. Results(inbox) = Cardinality(Unread) /\ Unread' = Unread
      BY <1>2 DEF Results, Unread
    <3> QED
      BY <3>1, <3>2, Sent, CountCGUs DEF Inv, Typed
  <2>2. Running' = Running + Cardinality(lent) + Cardinality(new)
    <3>1. Running' = own + Cardinality(new) + (IF state = "Lending" THEN 1 ELSE 0)
      BY <1>1 DEF Running, running_with_any_token
    <3>2. own + (IF state = "Lending" THEN 1 ELSE 0) = Running + Cardinality(lent)
      BY DEF running_with_any_token
    <3>3. Running \in Nat
      BY DEF Running, running_with_any_token, Inv, Typed
    <3> QED
      BY <1>1, <1>5, <3>1, <3>2, <3>3
  <2>3. RunningExact'
    BY <1>1, <1>2, <1>4, <1>5, <2>1, <2>2 DEF Inv, Counted, RunningExact, Ended
  <2> QED
    BY <1>1, <1>2, <1>4, <2>3 DEF Counted, Loop, Thin, Ended
<1>9. Asked'
  BY <1>1, <1>2, <1>4 DEF Inv, Typed, Asked, Loop
<1>10. MainEnds'
  BY <1>1, <1>2, <1>4 DEF Inv, MainEnds, Complete, Thin, Final, AbortIsExplained
<1>11. ErrorsTold'
  BY <1>1, <1>2 DEF Inv, ErrorsTold, Told
<1>12. Placed'
  BY <1>1, <1>2, <1>3 DEF Inv, Placed
<1>13. Kept'
  BY <1>1, <1>2, <1>3, <1>4 DEF Inv, Kept, Thin
<1> QED
  BY <1>6, <1>7, <1>8, <1>9, <1>10, <1>11, <1>12, <1>13 DEF Inv

\* The thread goes on with ThinLTO: nothing is under way then but tokens.
LEMMA ThinStartInv ==
  ASSUME Inv, coordinator = "top", loop_done, after_loop,
         codegen_state = "Completed", config.lto = "ThinLocal", thin_lto_modules # {}
  PROVE  Inv'
<1>1. /\ coordinator' = "thin_top"
      /\ needs_lto' = {} /\ import_only' = {}
      /\ pool' = pool + tokens /\ tokens' = 0
      /\ stranded' = TokensIn(inbox) /\ inbox' = <<>>
      /\ UNCHANGED <<config, main, next, errors, cgu_messages, main_thread_state,
                     running_with_own_token, compiled, result, working, failing>>
      /\ \/ /\ work_items' = needs_lto \cup import_only
            /\ pending' = Min({config.parallel, Cardinality(work_items')})
            /\ UNCHANGED <<diagnostics, codegen_state>>
         \/ /\ work_items' = {} /\ pending' = 0
            /\ diagnostics' = diagnostics + 1 /\ codegen_state' = "Aborted"
  BY DEF after_loop, generate_thin_lto_work, fatal, thin_lto_modules, mainVars
<1>2. DOMAIN inbox' = {} /\ inbox' \in Seq(Messages) /\ TokensIn(inbox') = 0
  BY <1>1, NothingIn, Zenon
<1>3. CGUs' = CGUs /\ Messages' = Messages /\ Mailed' = {}
  <2>1. MailedIn(inbox') = {}
    BY <1>2 DEF MailedIn
  <2> QED
    BY <1>1, <2>1, SameConfig
<1>4. TokensIn(inbox) \in Nat
  <2>1. [type |-> "CodegenComplete"] \in Messages /\ inbox \in Seq(Messages)
    BY NewMessages DEF Inv, Typed
  <2> QED
    BY <2>1, Sent
<1>5. /\ ~Ended /\ Loop /\ Running = 0 /\ work_items = {} /\ result = "none" /\ stranded = 0
      /\ tokens \in Nat /\ pool \in Nat /\ main \notin Final \cup {"join"}
  BY DEF loop_done, Ended, Loop, Inv, Counted, Conserved, Typed, MainEnds
<1>6. working = {} /\ failing = {} /\ \A i \in DOMAIN inbox : inbox[i].type # "WorkItem"
  BY <1>5, NobodyWorks
<1>7. Mailed = {}
  BY <1>6 DEF Inv, Asked, Reply, Mailed, MailedIn, Carries
<1>8. running_with_own_token = 0 /\ main_thread_state # "Lending"
  BY <1>5 DEF Running, running_with_any_token, Inv, Typed
<1>9. Typed'
  <2>1. work_items' \subseteq CGUs /\ Typed
    BY <1>1 DEF Inv, Typed
  <2>2. Cardinality(work_items') \in Nat /\ config.parallel \in Nat
    BY <2>1, CountCGUs, ConfigsAssumption DEF Typed
  <2>3. pending' \in Nat
    <3>1. PICK n \in Nat : n = Cardinality(work_items')
      BY <2>2
    <3>2. PICK p \in Nat : p = config.parallel
      BY <2>2
    <3>3. Min({p, n}) \in Nat
      BY MinTwo
    <3> QED
      BY <1>1, <3>1, <3>2, <3>3
  <2> QED
    BY <1>1, <1>2, <1>3, <1>4, <1>5, <2>1, <2>3 DEF Typed
<1>10. Conserved'
  <2>1. tokens + pool + stranded + TokensIn(inbox) = config.available
    BY DEF Inv, Conserved
  <2>2. tokens' + pool' + stranded' + TokensIn(inbox') = config.available
    BY <1>1, <1>2, <1>4, <1>5, <2>1
  <2> QED
    BY <1>1, <2>2 DEF Conserved, Loop, Ended
<1>11. Counted'
  <2>1. Unread' = {}
    BY <1>2 DEF Unread
  <2>2. Cardinality({}) = 0
    BY FS_EmptySet
  <2>3. RunningExact'
    BY <1>1, <1>6, <1>8, <2>1, <2>2 DEF RunningExact, Running, running_with_any_token
  <2> QED
    BY <1>1, <1>5, <1>8, <2>3 DEF Counted, Ended, Loop, Thin
<1>12. Asked'
  BY <1>1, <1>2 DEF Inv, Asked, Loop
<1>13. MainEnds'
  BY <1>1, <1>2, <1>5 DEF Inv, MainEnds, Complete, Final, AbortIsExplained
<1>14. ErrorsTold'
  <2>1. CASE UNCHANGED <<diagnostics, codegen_state>>
    BY <1>1, <1>2, <2>1 DEF Inv, ErrorsTold, Told
  <2>2. CASE diagnostics' = diagnostics + 1
    <3>1. diagnostics \in Nat
      BY DEF Inv, Typed
    <3>2. Told'
      BY <2>2, <3>1 DEF Told
    <3> QED
      BY <3>2 DEF ErrorsTold
  <2> QED
    BY <1>1, <2>1, <2>2
<1>15. Placed'
  BY <1>1, <1>2, <1>3, <1>6, <1>7 DEF Inv, Placed
<1>16. Kept'
  BY <1>1, <1>2, <1>3, <1>5, <1>6, <1>7 DEF Inv, Kept, Thin
<1> QED
  BY <1>9, <1>10, <1>11, <1>12, <1>13, <1>14, <1>15, <1>16 DEF Inv

\* The top of the loop: it ends the thread, begins ThinLTO or starts workers; none of
\* its assertions fails.
LEMMA TopInv ==
  ASSUME Inv, loop_top
  PROVE  Inv'
<1>1. coordinator = "top" /\ ~Ended /\ Loop /\ tokens \in Nat /\ running_with_own_token \in Nat
      /\ running_with_own_token <= tokens
  BY DEF loop_top, Ended, Loop, Inv, Typed, Counted
<1>2. CASE loop_done /\ after_loop
  <2>1. Running = 0 /\ codegen_state \in {"Completed", "Aborted"}
        /\ (codegen_state = "Completed" => work_items = {})
    BY <1>2 DEF loop_done
  <2>2. CASE codegen_state = "Completed" /\ config.lto = "ThinLocal" /\ thin_lto_modules # {}
    BY <1>1, <1>2, <2>2, ThinStartInv
  <2>3. CASE ~(codegen_state = "Completed" /\ config.lto = "ThinLocal" /\ thin_lto_modules # {})
    <3>1. PICK r : EndWith(r) /\ r = (IF codegen_state = "Aborted" THEN "Err" ELSE "Ok")
      BY <1>2, <2>3 DEF after_loop
    <3>2. working = {} /\ failing = {} /\ \A i \in DOMAIN inbox : inbox[i].type # "WorkItem"
      BY <1>1, <2>1, NobodyWorks
    <3>3. r = "Ok" => Mailed = {}
      BY <2>1, <3>1, <3>2 DEF Inv, Asked, Reply, Mailed, MailedIn, Carries
    <3>4. codegen_state = "Aborted" => Told
      BY DEF Inv, ErrorsTold
    <3>5. config.lto \in {"No", "Fat", "ThinLocal"}
      BY ConfigsAssumption DEF Inv, Typed
    <3>6. r = "Ok" /\ config.lto # "Fat" => needs_lto = {} /\ import_only = {}
      BY <2>1, <2>3, <3>1, <3>5 DEF Inv, Kept, thin_lto_modules
    <3>7. MayEnd(r)
      BY <2>1, <3>1, <3>2, <3>3, <3>4, <3>6 DEF MayEnd
    <3> QED
      BY <1>1, <3>1, <3>7, EndInv
  <2> QED
    BY <2>2, <2>3
<1>3. ASSUME AssertionFails PROVE FALSE
  <2>1. ~(tokens < running_with_own_token) /\ main # "failed"
    BY <1>1 DEF Inv, MainEnds, Final
  <2> QED
    BY <1>3, <2>1 DEF AssertionFails, Inv, Asked
<1>4. CASE /\ take_over \/ lend \/ ask_main_thread \/ go_on
           /\ UNCHANGED <<config, mainVars, inbox, diagnostics, codegen_state,
                          outVars, result, failing, pending, stranded>>
  <2>0. Cardinality({}) = 0 /\ {} \in SUBSET work_items /\ Running \in Nat
    BY <1>1, FS_EmptySet DEF Running, running_with_any_token
  <2>1. CASE take_over
    <3>1. /\ Spawn("Lending", {}, running_with_own_token - 1) /\ cgu_messages' = cgu_messages
          /\ main_thread_state = "Idle" /\ running_with_own_token > 0
      BY <2>1 DEF take_over
    <3>2. PICK own \in Nat : own = running_with_own_token - 1
      BY <1>1, <3>1
    <3>3. Spawn("Lending", {}, own) /\ own <= tokens
      BY <1>1, <3>1, <3>2
    <3>4. running_with_any_token("Lending", own) = Running + Cardinality({})
      BY <1>1, <2>0, <3>1, <3>2 DEF Running, running_with_any_token
    <3> QED
      BY <1>1, <1>4, <2>0, <3>1, <3>2, <3>3, <3>4, SpawnInv
  <2>2. CASE lend
    <3>1. PICK item \in work_items : Spawn("Lending", {item}, running_with_own_token)
      BY <2>2 DEF lend
    <3>2. main_thread_state = "Idle" /\ cgu_messages' = cgu_messages
      BY <2>2 DEF lend
    <3>3. Cardinality({item}) = 1 /\ {item} \in SUBSET work_items
      BY FS_Singleton
    <3>4. running_with_any_token("Lending", running_with_own_token) = Running + Cardinality({item})
      BY <1>1, <3>2, <3>3 DEF Running, running_with_any_token
    <3> QED
      BY <1>1, <1>4, <3>1, <3>2, <3>3, <3>4, SpawnInv
  <2>3. CASE ask_main_thread
    <3>1. /\ Spawn("Codegenning", {}, running_with_own_token) /\ cgu_messages' = cgu_messages + 1
          /\ main_thread_state = "Idle" /\ codegen_state = "Ongoing"
      BY <2>3 DEF ask_main_thread
    <3>2. running_with_any_token("Codegenning", running_with_own_token) = Running + Cardinality({})
      BY <1>1, <2>0, <3>1 DEF Running, running_with_any_token
    <3> QED
      BY <1>1, <1>4, <2>0, <3>1, <3>2, SpawnInv
  <2>4. CASE go_on
    <3>1. Spawn(main_thread_state, {}, running_with_own_token) /\ cgu_messages' = cgu_messages
      BY <2>4 DEF go_on
    <3>2. PICK state \in {"Idle", "Codegenning", "Lending"} : state = main_thread_state
      BY DEF Inv, Typed
    <3>3. Spawn(state, {}, running_with_own_token)
      BY <3>1, <3>2
    <3>4. running_with_any_token(state, running_with_own_token) = Running + Cardinality({})
      BY <1>1, <2>0, <3>2 DEF Running, running_with_any_token
    <3>5. codegen_state = "Completed" => state # "Codegenning"
      BY <3>2 DEF Inv, Asked
    <3> QED
      BY <1>1, <1>4, <2>0, <3>1, <3>2, <3>3, <3>4, <3>5, SpawnInv
  <2> QED
    BY <1>4, <2>1, <2>2, <2>3, <2>4
<1> QED
  BY <1>2, <1>3, <1>4 DEF loop_top

-----------------------------------------------------------------------------
(* The coordinator: messages.                                              *)

\* The first message is taken out of the inbox: it is the only one of its module,
\* and if the main thread sent code, the only one with code.
LEMMA Received ==
  ASSUME Inv, inbox # <<>>
  PROVE  /\ Head(inbox) \in Messages /\ Tail(inbox) \in Seq(Messages)
         /\ 1 \in DOMAIN inbox /\ inbox[1] = Head(inbox)
         /\ \A i \in DOMAIN Tail(inbox) :
              i + 1 \in DOMAIN inbox /\ i + 1 # 1 /\ Tail(inbox)[i] = inbox[i + 1]
         /\ TokensIn(Tail(inbox)) \in Nat /\ Results(Tail(inbox)) \in Nat
         /\ TokensIn(inbox) = TokensIn(Tail(inbox)) + (IF IsToken(Head(inbox)) THEN 1 ELSE 0)
         /\ Cardinality(Unread) = Results(Tail(inbox))
                                    + (IF Head(inbox).type = "WorkItem" THEN 1 ELSE 0)
         /\ Carries(Head(inbox)) =>
              /\ Head(inbox).cgu \in CGUs /\ Head(inbox).cgu \notin MailedIn(Tail(inbox))
              /\ Mailed = MailedIn(Tail(inbox)) \cup {Head(inbox).cgu}
         /\ ~Carries(Head(inbox)) => Mailed = MailedIn(Tail(inbox))
         /\ \A i, j \in DOMAIN Tail(inbox) :
              Carries(Tail(inbox)[i]) /\ Carries(Tail(inbox)[j])
                /\ Tail(inbox)[i].cgu = Tail(inbox)[j].cgu => i = j
         /\ Reply(Head(inbox)) => \A i \in DOMAIN Tail(inbox) : ~Reply(Tail(inbox)[i])
<1> DEFINE m == Head(inbox)
           q == Tail(inbox)
<1>1. inbox \in Seq(Messages)
  BY DEF Inv, Typed
<1>2. /\ q \in Seq(Messages) /\ m \in Messages
      /\ 1 \in DOMAIN inbox /\ inbox[1] = m
      /\ \A i \in DOMAIN q : i + 1 \in DOMAIN inbox /\ i + 1 # 1 /\ q[i] = inbox[i + 1]
      /\ TokensIn(q) \in Nat /\ Results(q) \in Nat
      /\ TokensIn(inbox) = TokensIn(q) + (IF IsToken(m) THEN 1 ELSE 0)
      /\ Results(inbox) = Results(q) + (IF m.type = "WorkItem" THEN 1 ELSE 0)
      /\ MailedIn(inbox) = MailedIn(q) \cup {c \in CGUs : Carries(m) /\ m.cgu = c}
  BY <1>1, Taken
<1>3. Mailed = MailedIn(inbox) /\ Results(inbox) = Cardinality(Unread)
  BY DEF Mailed, Results, Unread
<1>4. \A i, j \in DOMAIN q : Carries(q[i]) /\ Carries(q[j]) /\ q[i].cgu = q[j].cgu => i = j
  <2> TAKE i, j \in DOMAIN q
  <2> HAVE Carries(q[i]) /\ Carries(q[j]) /\ q[i].cgu = q[j].cgu
  <2>1. i + 1 = j + 1
    BY <1>2 DEF Inv, Placed
  <2>2. i \in Int /\ j \in Int
    BY <1>2
  <2> QED
    BY <2>1, <2>2
<1>5. ASSUME Carries(m)
      PROVE  m.cgu \in CGUs /\ m.cgu \notin MailedIn(q) /\ Mailed = MailedIn(q) \cup {m.cgu}
  <2>1. m.cgu \in CGUs
    BY <1>2, <1>5, MessageFields
  <2>2. \A i \in DOMAIN q : Carries(q[i]) => q[i].cgu # m.cgu
    BY <1>2, <1>5 DEF Inv, Placed
  <2>3. m.cgu \notin MailedIn(q)
    BY <2>2 DEF MailedIn
  <2>4. {c \in CGUs : Carries(m) /\ m.cgu = c} = {m.cgu}
    BY <1>5, <2>1
  <2> QED
    BY <1>2, <1>3, <2>1, <2>3, <2>4, Zenon
<1>6. ASSUME ~Carries(m) PROVE Mailed = MailedIn(q)
  <2>1. {c \in CGUs : Carries(m) /\ m.cgu = c} = {}
    BY <1>6
  <2>2. MailedIn(q) \cup {c \in CGUs : Carries(m) /\ m.cgu = c} = MailedIn(q)
    BY <2>1
  <2> QED
    BY <1>2, <1>3, <2>2, Zenon
<1>7. ASSUME Reply(m) PROVE \A i \in DOMAIN q : ~Reply(q[i])
  BY <1>2, <1>7 DEF Inv, Asked
<1> HIDE DEF m, q
<1>8. Cardinality(Unread) = Results(q) + (IF m.type = "WorkItem" THEN 1 ELSE 0)
  BY <1>2, <1>3
<1> QED
  BY <1>2, <1>4, <1>5, <1>6, <1>7, <1>8 DEF m, q

\* A message on which the coordinator panics is a worker's panic, or a module to
\* import after an abort, which has been told.
LEMMA PanicFacts ==
  ASSUME Inv, ~Ended, inbox # <<>>
  PROVE  LET m == Head(inbox) IN
         /\ PanicOn(m) # "none" => MayEnd(PanicOn(m))
         /\ PanicOn(m) = "none" =>
              /\ m.type = "WorkItem" => m.res \in {"ok", "fatal"} /\ Running > 0
              /\ m.type = "AddImportOnlyModule" => codegen_state = "Ongoing"
<1> DEFINE m == Head(inbox)
<1>1. /\ m \in Messages /\ 1 \in DOMAIN inbox /\ inbox[1] = m /\ Results(Tail(inbox)) \in Nat
      /\ Cardinality(Unread) = Results(Tail(inbox)) + (IF m.type = "WorkItem" THEN 1 ELSE 0)
  BY Received
<1>2. Cardinality(working) \in Nat /\ Cardinality(failing) \in Nat
  BY CountCGUs DEF Inv, Typed
<1>3. Running = Cardinality(working) + Cardinality(failing) + Cardinality(Unread)
  BY DEF Inv, Counted, RunningExact
<1>4. m.type = "WorkItem" => Running > 0 /\ m.res \in {"ok", "fatal", "panic"}
  BY <1>1, <1>2, <1>3, MessageFields
<1>5. m.type \in {"CodegenDone", "CodegenComplete", "AddImportOnlyModule"}
        => main_thread_state = "Codegenning"
  BY <1>1 DEF Inv, Asked, Reply
<1>6. main_thread_state = "Codegenning" => codegen_state \in {"Ongoing", "Aborted"}
  BY DEF Inv, Typed, Asked
<1>7. codegen_state = "Aborted" => Told
  BY DEF Inv, ErrorsTold
<1> HIDE DEF m
<1>8. CASE m.type = "WorkItem" /\ m.res = "panic"
  <2>1. PanicOn(m) = "worker panicked"
    BY <1>4, <1>8 DEF PanicOn
  <2> QED
    BY <1>8, <2>1 DEF MayEnd, Panics, m
<1>9. CASE m.type = "AddImportOnlyModule" /\ codegen_state # "Ongoing"
  <2>1. PanicOn(m) = "import assertion"
    BY <1>5, <1>9 DEF PanicOn
  <2> QED
    BY <1>5, <1>6, <1>7, <1>9, <2>1 DEF MayEnd, Panics, m
<1>10. CASE ~(m.type = "WorkItem" /\ m.res = "panic")
            /\ ~(m.type = "AddImportOnlyModule" /\ codegen_state # "Ongoing")
  <2>1. PanicOn(m) = "none"
    BY <1>4, <1>5, <1>10 DEF PanicOn
  <2> QED
    BY <1>4, <1>10, <2>1 DEF m
<1> QED
  BY <1>8, <1>9, <1>10

\* What all messages of the loop have in common.
Handled ==
  /\ coordinator = "recv" /\ inbox # <<>> /\ PanicOn(Head(inbox)) = "none"
  /\ inbox' = Tail(inbox) /\ coordinator' = "top"
  /\ UNCHANGED <<config, mainVars, cgu_messages, result, working, failing, pool, stranded>>

\* What is left of the inbox.
Left(m) ==
  /\ m \in Messages /\ 1 \in DOMAIN inbox /\ inbox[1] = m /\ inbox' \in Seq(Messages)
  /\ \A i \in DOMAIN inbox' : \E j \in DOMAIN inbox : inbox'[i] = inbox[j]
  /\ \A i, j \in DOMAIN inbox' : Reply(inbox'[i]) /\ Reply(inbox'[j]) => i = j
  /\ Reply(m) => \A i \in DOMAIN inbox' : ~Reply(inbox'[i])
  /\ TokensIn(inbox') \in Nat /\ Cardinality(Unread') \in Nat
  /\ TokensIn(inbox) = TokensIn(inbox') + (IF IsToken(m) THEN 1 ELSE 0)
  /\ Cardinality(Unread) = Cardinality(Unread') + (IF m.type = "WorkItem" THEN 1 ELSE 0)
  /\ Carries(m) => m.cgu \in CGUs /\ m.cgu \notin Mailed' /\ Mailed = Mailed' \cup {m.cgu}
  /\ ~Carries(m) => Mailed = Mailed'
  /\ \A i, j \in DOMAIN inbox' :
       Carries(inbox'[i]) /\ Carries(inbox'[j]) /\ inbox'[i].cgu = inbox'[j].cgu => i = j

\* The rest of the inbox tells of no error that the whole did not tell of.
LEMMA RestTold ==
  ASSUME NEW m, Left(m)
  PROVE  (\E i \in DOMAIN inbox' : \/ inbox'[i].type = "CodegenAborted"
                                   \/ inbox'[i].type = "WorkItem" /\ inbox'[i].res = "fatal")
         => \E i \in DOMAIN inbox : \/ inbox[i].type = "CodegenAborted"
                                    \/ inbox[i].type = "WorkItem" /\ inbox[i].res = "fatal"
BY DEF Left

\* Receiving leaves the rest of the inbox as it was.
LEMMA LeftFacts ==
  ASSUME Inv, inbox # <<>>, inbox' = Tail(inbox), config' = config
  PROVE  Left(Head(inbox))
<1>1. Mailed' = MailedIn(Tail(inbox)) /\ Results(Tail(inbox)) = Cardinality(Unread')
  BY SameConfig DEF Results, Unread
<1>2. \A i \in DOMAIN inbox' : \E j \in DOMAIN inbox : inbox'[i] = inbox[j]
  BY Received
<1>3. \A i, j \in DOMAIN inbox' : Reply(inbox'[i]) /\ Reply(inbox'[j]) => i = j
  <2> TAKE i, j \in DOMAIN inbox'
  <2> HAVE Reply(inbox'[i]) /\ Reply(inbox'[j])
  <2>1. i + 1 \in DOMAIN inbox /\ j + 1 \in DOMAIN inbox
        /\ inbox'[i] = inbox[i + 1] /\ inbox'[j] = inbox[j + 1]
    BY Received
  <2>2. i + 1 = j + 1
    BY <2>1 DEF Inv, Asked
  <2>3. i \in Int /\ j \in Int
    <3>1. inbox' \in Seq(Messages)
      BY Received
    <3> QED
      BY <3>1
  <2> QED
    BY <2>2, <2>3
<1> QED
  BY <1>1, <1>2, <1>3, Received DEF Left

\* The state in which a message of the loop is handled.
LEMMA HandledFacts ==
  ASSUME Inv, Handled
  PROVE  /\ Left(Head(inbox))
         /\ UNCHANGED <<config, main, next, errors, cgu_messages, result, working, failing,
                        pool, stranded>>
         /\ CGUs' = CGUs /\ Messages' = Messages
         /\ ~Ended /\ Loop /\ ~Thin /\ coordinator' = "top" /\ result = "none" /\ stranded = 0
         /\ main \notin Final \cup {"join"}
         /\ tokens \in Nat /\ pool \in Nat /\ running_with_own_token = tokens
         /\ Cardinality(working) \in Nat /\ Cardinality(failing) \in Nat
         /\ Running = Cardinality(working) + Cardinality(failing) + Cardinality(Unread)
         /\ Head(inbox).type = "WorkItem" => Head(inbox).res \in {"ok", "fatal"} /\ Running > 0
         /\ Head(inbox).type = "AddImportOnlyModule" => codegen_state = "Ongoing"
<1>1. UNCHANGED <<config, main, next, errors, cgu_messages, result, working, failing, pool, stranded>>
  BY DEF Handled, mainVars
<1>2. /\ ~Ended /\ Loop /\ ~Thin /\ coordinator' = "top" /\ result = "none" /\ stranded = 0
      /\ main \notin Final \cup {"join"}
      /\ tokens \in Nat /\ pool \in Nat /\ running_with_own_token = tokens
  BY DEF Handled, Ended, Loop, Thin, Inv, Counted, Conserved, Typed, MainEnds
<1>3. Cardinality(working) \in Nat /\ Cardinality(failing) \in Nat
  BY CountCGUs DEF Inv, Typed
<1>4. Running = Cardinality(working) + Cardinality(failing) + Cardinality(Unread)
  BY <1>2 DEF Inv, Counted, RunningExact
<1>5. Left(Head(inbox))
  BY <1>1, LeftFacts DEF Handled
<1>6. /\ Head(inbox).type = "WorkItem" => Head(inbox).res \in {"ok", "fatal"} /\ Running > 0
      /\ Head(inbox).type = "AddImportOnlyModule" => codegen_state = "Ongoing"
  BY <1>2, PanicFacts DEF Handled
<1> QED
  BY <1>1, <1>2, <1>3, <1>4, <1>5, <1>6, SameConfig

\* A token arrives: the worker on the implicit token becomes a regular one.
LEMMA TokenInv ==
  ASSUME Inv, Handled, receive_token(Head(inbox))
  PROVE  Inv'
<1>1. PICK m : m = Head(inbox)
  OBVIOUS
<1>2. Left(m) /\ receive_token(m) /\ m.type = "Token"
  BY <1>1, HandledFacts DEF receive_token
<1>3. m.ok \in BOOLEAN /\ ~Carries(m) /\ ~Reply(m)
  BY <1>2, MessageFields DEF Left, Carries, Reply
<1>4. UNCHANGED <<work_items, compiled, needs_lto, import_only, pending>>
  BY <1>2 DEF receive_token, outVars
<1>5. CASE m.ok
  <2>1. /\ tokens' = tokens + 1 /\ running_with_own_token' = Running
        /\ main_thread_state' = IF main_thread_state = "Lending" THEN "Idle" ELSE main_thread_state
        /\ UNCHANGED <<codegen_state, diagnostics>>
    BY <1>2, <1>5 DEF receive_token, after_lending, own_after_token
  <2>2. TokensIn(inbox) = TokensIn(inbox') + 1
    BY <1>2, <1>5 DEF Left, IsToken
  <2>3. Running \in Nat /\ Running <= tokens + 1 /\ Running' = Running
    BY <2>1, HandledFacts DEF Running, running_with_any_token, Inv, Typed
  <2>4. Typed'
    <3>1. inbox' \in Seq(Messages) /\ Messages' = Messages /\ CGUs' = CGUs
      BY <1>2, HandledFacts DEF Left
    <3>2. tokens' \in Nat /\ running_with_own_token' \in Nat
      BY <2>1, <2>3, HandledFacts
    <3>3. main_thread_state' \in {"Idle", "Codegenning", "Lending"}
      BY <2>1 DEF Inv, Typed
    <3> QED
      BY <1>4, <2>1, <3>1, <3>2, <3>3, HandledFacts DEF Inv, Typed
  <2>5. Conserved'
    <3>1. tokens + pool + stranded + TokensIn(inbox) = config.available
      BY DEF Inv, Conserved
    <3>2. TokensIn(inbox') \in Nat
      BY <1>2 DEF Left
    <3>3. tokens \in Nat /\ pool \in Nat /\ stranded = 0 /\ UNCHANGED <<config, pool, stranded>>
      BY HandledFacts
    <3>4. tokens' + pool' + stranded' + TokensIn(inbox') = config'.available
      BY <2>1, <2>2, <3>1, <3>2, <3>3
    <3> QED
      BY <3>4, HandledFacts DEF Conserved, Ended
  <2>6. Counted'
    <3>1. RunningExact'
      BY <1>2, <2>3, HandledFacts DEF RunningExact, Left
    <3> QED
      BY <2>1, <2>3, <3>1, HandledFacts DEF Counted, Ended, Loop, Thin
  <2>7. Asked'
    BY <1>2, <2>1, HandledFacts DEF Inv, Asked, Loop, Left
  <2>8. MainEnds'
    BY <1>2, <2>1, HandledFacts DEF Inv, MainEnds, Complete, Thin, Final, AbortIsExplained, Left
  <2>9. ErrorsTold'
    BY <1>2, <2>1, HandledFacts DEF Inv, ErrorsTold, Told, Left
  <2>10. Placed' /\ Kept'
    BY <1>2, <1>3, <1>4, <2>1, HandledFacts DEF Inv, Placed, Kept, Thin, Left
  <2> QED
    BY <2>4, <2>5, <2>6, <2>7, <2>8, <2>9, <2>10 DEF Inv
<1>6. CASE ~m.ok
  <2>1. /\ diagnostics' = diagnostics + 1 /\ codegen_state' = "Aborted"
        /\ UNCHANGED <<tokens, main_thread_state, running_with_own_token>>
    BY <1>2, <1>6 DEF receive_token, fatal
  <2>2. TokensIn(inbox) = TokensIn(inbox')
    BY <1>2, <1>6 DEF Left, IsToken
  <2>3. Running' = Running
    BY <2>1 DEF Running, running_with_any_token
  <2>4. Typed'
    <3>1. inbox' \in Seq(Messages) /\ Messages' = Messages /\ CGUs' = CGUs
      BY <1>2, HandledFacts DEF Left
    <3>2. diagnostics' \in Nat /\ tokens' \in Nat /\ codegen_state' \in {"Ongoing", "Completed", "Aborted"}
      BY <2>1, HandledFacts DEF Inv, Typed
    <3> QED
      BY <1>4, <2>1, <3>1, <3>2, HandledFacts DEF Inv, Typed
  <2>5. Conserved'
    BY <2>1, <2>2, HandledFacts DEF Inv, Conserved, Ended
  <2>6. Counted'
    <3>1. RunningExact'
      BY <1>2, <2>3, HandledFacts DEF RunningExact, Left
    <3> QED
      BY <2>1, <2>3, <3>1, HandledFacts DEF Counted, Ended, Loop, Thin
  <2>7. Asked'
    BY <1>2, <2>1, HandledFacts DEF Inv, Asked, Loop, Left
  <2>8. MainEnds'
    BY <1>2, <2>1, HandledFacts DEF Inv, MainEnds, Complete, Thin, Final, AbortIsExplained, Left
  <2>9. ErrorsTold'
    <3>1. Told'
      BY <2>1 DEF Told, Inv, Typed
    <3> QED
      BY <3>1 DEF ErrorsTold
  <2>10. Placed' /\ Kept'
    BY <1>2, <1>3, <1>4, <2>1, HandledFacts DEF Inv, Placed, Kept, Thin, Left
  <2> QED
    BY <2>4, <2>5, <2>6, <2>7, <2>8, <2>9, <2>10 DEF Inv
<1> QED
  BY <1>3, <1>5, <1>6

\* A module to optimise arrives.
LEMMA DoneInv ==
  ASSUME Inv, Handled, receive_codegen_done(Head(inbox))
  PROVE  Inv'
<1>1. PICK m : m = Head(inbox)
  OBVIOUS
<1>2. Left(m) /\ m.type = "CodegenDone"
  BY <1>1, HandledFacts DEF receive_codegen_done
<1>3. /\ work_items' = work_items \cup {m.cgu}
      /\ pending' = IF Running < config.parallel THEN pending + 1 ELSE pending
      /\ main_thread_state' = "Idle"
      /\ UNCHANGED <<diagnostics, codegen_state, tokens, running_with_own_token,
                     compiled, needs_lto, import_only>>
  BY <1>1 DEF receive_codegen_done, outVars
<1>4. Carries(m) /\ Reply(m) /\ ~IsToken(m) /\ m.cgu \in CGUs /\ main_thread_state = "Codegenning"
  BY <1>2, MessageFields DEF Left, Carries, Reply, IsToken, Inv, Asked
<1>5. Typed'
  <2>1. inbox' \in Seq(Messages) /\ Messages' = Messages /\ CGUs' = CGUs
    BY <1>2, HandledFacts DEF Left
  <2>2. pending' \in Nat
    BY <1>3 DEF Inv, Typed
  <2> QED
    BY <1>3, <1>4, <2>1, <2>2, HandledFacts DEF Inv, Typed
<1>6. Conserved'
  <2>1. TokensIn(inbox) = TokensIn(inbox')
    BY <1>2, <1>4 DEF Left
  <2> QED
    BY <1>3, <2>1, HandledFacts DEF Inv, Conserved, Ended
<1>7. Counted'
  <2>1. Running' = Running
    BY <1>3, <1>4 DEF Running, running_with_any_token
  <2>2. RunningExact'
    BY <1>2, <2>1, HandledFacts DEF RunningExact, Left
  <2> QED
    BY <1>3, <2>2, HandledFacts DEF Counted, Ended, Loop, Thin
<1>8. Asked'
  BY <1>2, <1>3, <1>4, HandledFacts DEF Inv, Asked, Loop, Left
<1>9. MainEnds'
  BY <1>2, <1>3, HandledFacts DEF Inv, MainEnds, Complete, Thin, Final, AbortIsExplained, Left
<1>10. ErrorsTold'
  BY <1>2, <1>3, HandledFacts DEF Inv, ErrorsTold, Told, Left
<1>11. Placed'
  BY <1>2, <1>3, <1>4, HandledFacts DEF Inv, Placed, Left
<1>12. Kept'
  BY <1>2, <1>3, <1>4, HandledFacts DEF Inv, Kept, Thin, Left
<1> QED
  BY <1>5, <1>6, <1>7, <1>8, <1>9, <1>10, <1>11, <1>12 DEF Inv

\* A module to import arrives.
LEMMA ImportInv ==
  ASSUME Inv, Handled, receive_import_only(Head(inbox))
  PROVE  Inv'
<1>1. PICK m : m = Head(inbox)
  OBVIOUS
<1>2. Left(m) /\ m.type = "AddImportOnlyModule"
  BY <1>1, HandledFacts DEF receive_import_only
<1>3. /\ import_only' = import_only \cup {m.cgu}
      /\ main_thread_state' = "Idle"
      /\ UNCHANGED <<diagnostics, codegen_state, tokens, running_with_own_token,
                     work_items, compiled, needs_lto, pending>>
  BY <1>1 DEF receive_import_only
<1>4. Carries(m) /\ Reply(m) /\ ~IsToken(m) /\ m.cgu \in CGUs /\ main_thread_state = "Codegenning"
  BY <1>2, MessageFields DEF Left, Carries, Reply, IsToken, Inv, Asked
<1>5. Typed'
  <2>1. inbox' \in Seq(Messages) /\ Messages' = Messages /\ CGUs' = CGUs
    BY <1>2, HandledFacts DEF Left
  <2> QED
    BY <1>3, <1>4, <2>1, HandledFacts DEF Inv, Typed
<1>6. Conserved'
  <2>1. TokensIn(inbox) = TokensIn(inbox')
    BY <1>2, <1>4 DEF Left
  <2> QED
    BY <1>3, <2>1, HandledFacts DEF Inv, Conserved, Ended
<1>7. Counted'
  <2>1. Running' = Running
    BY <1>3, <1>4 DEF Running, running_with_any_token
  <2>2. RunningExact'
    BY <1>2, <2>1, HandledFacts DEF RunningExact, Left
  <2> QED
    BY <1>3, <2>2, HandledFacts DEF Counted, Ended, Loop, Thin
<1>8. Asked'
  BY <1>2, <1>3, <1>4, HandledFacts DEF Inv, Asked, Loop, Left
<1>9. MainEnds'
  BY <1>2, <1>3, HandledFacts DEF Inv, MainEnds, Complete, Thin, Final, AbortIsExplained, Left
<1>10. ErrorsTold'
  BY <1>2, <1>3, HandledFacts DEF Inv, ErrorsTold, Told, Left
<1>11. Placed'
  BY <1>2, <1>3, <1>4, HandledFacts DEF Inv, Placed, Left
<1>12. Kept'
  BY <1>2, <1>3, <1>4, HandledFacts DEF Inv, Kept, Thin, Left
<1> QED
  BY <1>5, <1>6, <1>7, <1>8, <1>9, <1>10, <1>11, <1>12 DEF Inv

\* The main thread has generated all code.
LEMMA CompleteInv ==
  ASSUME Inv, Handled, receive_codegen_complete(Head(inbox))
  PROVE  Inv'
<1>1. PICK m : m = Head(inbox)
  OBVIOUS
<1>2. Left(m) /\ m.type = "CodegenComplete"
  BY <1>1, HandledFacts DEF receive_codegen_complete
<1>3. /\ codegen_state' = IF codegen_state = "Aborted" THEN "Aborted" ELSE "Completed"
      /\ main_thread_state' = "Idle"
      /\ UNCHANGED <<diagnostics, tokens, running_with_own_token, work_items,
                     compiled, needs_lto, import_only, pending>>
  BY DEF receive_codegen_complete, completed, outVars
<1>4. ~Carries(m) /\ Reply(m) /\ ~IsToken(m) /\ main_thread_state = "Codegenning" /\ Complete
  BY <1>2 DEF Left, Carries, Reply, IsToken, Inv, Asked, Complete
<1>5. Typed'
  <2>1. inbox' \in Seq(Messages) /\ Messages' = Messages /\ CGUs' = CGUs
    BY <1>2, HandledFacts DEF Left
  <2> QED
    BY <1>3, <2>1, HandledFacts DEF Inv, Typed
<1>6. Conserved'
  <2>1. TokensIn(inbox) = TokensIn(inbox')
    BY <1>2, <1>4 DEF Left
  <2> QED
    BY <1>3, <2>1, HandledFacts DEF Inv, Conserved, Ended
<1>7. Counted'
  <2>1. Running' = Running
    BY <1>3, <1>4 DEF Running, running_with_any_token
  <2>2. RunningExact'
    BY <1>2, <2>1, HandledFacts DEF RunningExact, Left
  <2> QED
    BY <1>3, <2>2, HandledFacts DEF Counted, Ended, Loop, Thin
<1>8. Asked'
  BY <1>2, <1>3, <1>4, HandledFacts DEF Inv, Asked, Loop, Left
<1>9. MainEnds'
  BY <1>2, <1>3, <1>4, HandledFacts DEF Inv, MainEnds, Thin, Final, AbortIsExplained, Left
<1>10. ErrorsTold'
  BY <1>2, <1>3, HandledFacts DEF Inv, ErrorsTold, Told, Left
<1>11. Placed'
  BY <1>2, <1>3, <1>4, HandledFacts DEF Inv, Placed, Left
<1>12. Kept'
  BY <1>2, <1>3, <1>4, HandledFacts DEF Inv, Kept, Thin, Left
<1> QED
  BY <1>5, <1>6, <1>7, <1>8, <1>9, <1>10, <1>11, <1>12 DEF Inv

\* The main thread has unwound.
LEMMA AbortedInv ==
  ASSUME Inv, Handled, receive_codegen_aborted(Head(inbox))
  PROVE  Inv'
<1>1. PICK m : m = Head(inbox)
  OBVIOUS
<1>2. Left(m) /\ m.type = "CodegenAborted"
  BY <1>1, HandledFacts DEF receive_codegen_aborted
<1>3. /\ codegen_state' = "Aborted"
      /\ UNCHANGED <<diagnostics, main_thread_state, tokens, running_with_own_token, work_items,
                     compiled, needs_lto, import_only, pending>>
  BY DEF receive_codegen_aborted, outVars
<1>4. ~Carries(m) /\ ~Reply(m) /\ ~IsToken(m) /\ Told
  BY <1>2 DEF Left, Carries, Reply, IsToken, Inv, ErrorsTold
<1>5. Typed'
  <2>1. inbox' \in Seq(Messages) /\ Messages' = Messages /\ CGUs' = CGUs
    BY <1>2, HandledFacts DEF Left
  <2> QED
    BY <1>3, <2>1, HandledFacts DEF Inv, Typed
<1>6. Conserved'
  <2>1. TokensIn(inbox) = TokensIn(inbox')
    BY <1>2, <1>4 DEF Left
  <2> QED
    BY <1>3, <2>1, HandledFacts DEF Inv, Conserved, Ended
<1>7. Counted'
  <2>1. Running' = Running
    BY <1>3 DEF Running, running_with_any_token
  <2>2. RunningExact'
    BY <1>2, <2>1, HandledFacts DEF RunningExact, Left
  <2> QED
    BY <1>3, <2>2, HandledFacts DEF Counted, Ended, Loop, Thin
<1>8. Asked'
  BY <1>2, <1>3, <1>4, HandledFacts DEF Inv, Asked, Loop, Left
<1>9. MainEnds'
  BY <1>2, <1>3, HandledFacts DEF Inv, MainEnds, Complete, Thin, Final, AbortIsExplained, Left
<1>10. ErrorsTold'
  BY <1>3, <1>4, HandledFacts DEF ErrorsTold, Told
<1>11. Placed'
  BY <1>2, <1>3, <1>4, HandledFacts DEF Inv, Placed, Left
<1>12. Kept'
  BY <1>2, <1>3, <1>4, HandledFacts DEF Inv, Kept, Thin, Left
<1> QED
  BY <1>5, <1>6, <1>7, <1>8, <1>9, <1>10, <1>11, <1>12 DEF Inv

\* A worker's result arrives: the implicit token is freed first.
LEMMA WorkItemInv ==
  ASSUME Inv, Handled, receive_work_item(Head(inbox))
  PROVE  Inv'
<1>1. PICK m : m = Head(inbox)
  OBVIOUS
<1>2. Left(m) /\ m.type = "WorkItem" /\ m.res \in {"ok", "fatal"} /\ Running > 0
  BY <1>1, HandledFacts DEF receive_work_item
<1>3. /\ IF main_thread_state = "Lending"
         THEN main_thread_state' = "Idle" /\ running_with_own_token' = running_with_own_token
         ELSE /\ running_with_own_token' = running_with_own_token - 1
              /\ main_thread_state' = main_thread_state
      /\ codegen_state' = IF m.res = "fatal" THEN "Aborted" ELSE codegen_state
      /\ needs_lto' = needs_lto \cup {c \in {m.cgu} : m.res = "ok" /\ NeedsLto(c)}
      /\ compiled' = compiled \cup {c \in {m.cgu} : m.res = "ok" /\ ~NeedsLto(c)}
      /\ UNCHANGED <<diagnostics, tokens, work_items, import_only, pending>>
  BY <1>1 DEF receive_work_item
<1>4. Carries(m) /\ ~Reply(m) /\ ~IsToken(m) /\ m.cgu \in CGUs
  BY <1>2, MessageFields DEF Left, Carries, Reply, IsToken
<1>5. \/ /\ m.res = "fatal" /\ UNCHANGED <<needs_lto, compiled>>
      \/ /\ m.res = "ok" /\ needs_lto' = needs_lto \cup {m.cgu} /\ compiled' = compiled
         /\ config.lto # "No"
      \/ /\ m.res = "ok" /\ needs_lto' = needs_lto /\ compiled' = compiled \cup {m.cgu}
  BY <1>2, <1>3 DEF NeedsLto
<1>6. m.res = "fatal" => Told
  BY <1>2 DEF Left, Inv, ErrorsTold
<1>7. running_with_own_token' \in Nat /\ Running' = Running - 1
      /\ running_with_own_token' <= running_with_own_token
  BY <1>2, <1>3 DEF Running, running_with_any_token, Inv, Typed
<1>8. Typed'
  <2>1. inbox' \in Seq(Messages) /\ Messages' = Messages /\ CGUs' = CGUs
    BY <1>2, HandledFacts DEF Left
  <2>2. needs_lto' \subseteq CGUs /\ compiled' \subseteq CGUs
    BY <1>4, <1>5 DEF Inv, Typed
  <2>3. main_thread_state' \in {"Idle", "Codegenning", "Lending"}
        /\ codegen_state' \in {"Ongoing", "Completed", "Aborted"}
    BY <1>3 DEF Inv, Typed
  <2> QED
    BY <1>3, <1>7, <2>1, <2>2, <2>3, HandledFacts DEF Inv, Typed
<1>9. Conserved'
  <2>1. TokensIn(inbox) = TokensIn(inbox')
    BY <1>2, <1>4 DEF Left
  <2> QED
    BY <1>3, <2>1, HandledFacts DEF Inv, Conserved, Ended
<1>10. Counted'
  <2>1. RunningExact'
    BY <1>2, <1>7, HandledFacts DEF RunningExact, Left
  <2>2. running_with_own_token' <= tokens'
    BY <1>3, <1>7, HandledFacts DEF Inv, Typed
  <2> QED
    BY <2>1, <2>2, HandledFacts DEF Counted, Ended, Loop, Thin
<1>11. Asked'
  BY <1>2, <1>3, <1>4, HandledFacts DEF Inv, Asked, Loop, Left
<1>12. MainEnds'
  BY <1>2, <1>3, HandledFacts DEF Inv, MainEnds, Complete, Thin, Final, AbortIsExplained, Left
<1>13. ErrorsTold'
  BY <1>2, <1>3, <1>6, HandledFacts DEF Inv, ErrorsTold, Told, Left
<1>14. Placed'
  BY <1>2, <1>3, <1>4, <1>5, HandledFacts DEF Inv, Placed, Left
<1>15. Kept'
  BY <1>2, <1>3, <1>4, <1>5, HandledFacts DEF Inv, Kept, Thin, Left
<1> QED
  BY <1>8, <1>9, <1>10, <1>11, <1>12, <1>13, <1>14, <1>15 DEF Inv

\* One message of the loop.
LEMMA ReceiveInv ==
  ASSUME Inv, receive
  PROVE  Inv'
<1>1. coordinator = "recv" /\ inbox # <<>> /\ ~Ended
  BY DEF receive, Ended
<1>2. CASE PanicOn(Head(inbox)) # "none"
  <2>1. PICK r : r = PanicOn(Head(inbox))
    OBVIOUS
  <2>2. EndWith(r) /\ MayEnd(r)
    BY <1>1, <1>2, <2>1, PanicFacts DEF receive
  <2> QED
    BY <1>1, <2>2, EndInv
<1>3. CASE PanicOn(Head(inbox)) = "none"
  <2>1. Handled
    BY <1>3 DEF receive, Handled
  <2>2. \/ receive_token(Head(inbox)) \/ receive_codegen_done(Head(inbox))
        \/ receive_codegen_complete(Head(inbox)) \/ receive_codegen_aborted(Head(inbox))
        \/ receive_work_item(Head(inbox)) \/ receive_import_only(Head(inbox))
    BY <1>3 DEF receive
  <2> QED
    BY <2>1, <2>2, TokenInv, DoneInv, CompleteInv, AbortedInv, WorkItemInv, ImportInv
<1> QED
  BY <1>2, <1>3

-----------------------------------------------------------------------------
(* The coordinator in do_thin_lto.                                         *)

\* The top of do_thin_lto's loop: there is a worker, or one is started, before it waits.
LEMMA ThinTopInv ==
  ASSUME Inv, thin_top
  PROVE  Inv'
<1>1. /\ coordinator = "thin_top" /\ ~Ended /\ ~Loop /\ Thin /\ result = "none"
      /\ main \notin Final \cup {"join"} /\ main_thread_state # "Lending"
      /\ Running = running_with_own_token /\ needs_lto = {} /\ import_only = {}
      /\ tokens \in Nat /\ pool \in Nat /\ running_with_own_token \in Nat
      /\ running_with_own_token <= tokens + 1 /\ Typed
  BY DEF thin_top, Ended, Loop, Thin, Inv, Typed, Counted, MainEnds, Kept, Running,
         running_with_any_token
<1>2. CASE thin_done
  <2>1. PICK r : EndWith(r) /\ r = (IF codegen_state = "Aborted" THEN "FatalError" ELSE "Ok")
    BY <1>2 DEF thin_top
  <2>2. working = {} /\ failing = {} /\ \A i \in DOMAIN inbox : inbox[i].type # "WorkItem"
    BY <1>1, <1>2, NobodyWorks DEF thin_done
  <2>3. Mailed = {}
    BY <1>1, <2>2 DEF Inv, MainEnds, Mailed, MailedIn, Carries
  <2>4. codegen_state = "Aborted" => Told
    BY DEF Inv, ErrorsTold
  <2>5. codegen_state # "Aborted" => codegen_state = "Completed" /\ work_items = {}
    BY <1>1, <1>2 DEF thin_done, Inv, Typed, Kept
  <2>6. MayEnd(r)
    BY <1>1, <2>1, <2>2, <2>3, <2>4, <2>5 DEF MayEnd
  <2> QED
    BY <1>1, <2>1, <2>6, EndInv
<1>3. CASE ~thin_done
  <2> DEFINE used == running_with_own_token
             free == IF codegen_state = "Aborted" \/ used > tokens THEN 0 ELSE tokens + 1 - used
             k == Min({free, Cardinality(work_items)})
  <2>1. PICK new \in SUBSET work_items :
          /\ Cardinality(new) = k
          /\ work_items' = work_items \ new
          /\ working' = working \cup new
          /\ running_with_own_token' = used + Cardinality(new)
          /\ tokens' = Min({tokens, used + Cardinality(new) - 1})
    BY <1>3 DEF thin_top, kSubset
  <2>2. /\ pool' = pool + tokens - tokens' /\ coordinator' = "thin_recv"
        /\ UNCHANGED <<config, main, next, errors, inbox, cgu_messages, diagnostics,
                       codegen_state, main_thread_state, compiled, needs_lto, import_only, result,
                       failing, pending, stranded>>
    BY <1>3 DEF thin_top, mainVars, outVars
  <2>3. new \subseteq work_items /\ new \subseteq CGUs /\ Cardinality(new) = k
    BY <1>1, <2>1 DEF Typed
  <2>4. /\ Cardinality(work_items) \in Nat /\ (Cardinality(work_items) = 0 <=> work_items = {})
        /\ Cardinality(working) \in Nat /\ Cardinality(failing) \in Nat
    BY <1>1, CountCGUs DEF Typed
  <2>5. free \in Nat /\ (used <= tokens => used + free <= tokens + 1) /\ (used > tokens => free = 0)
    BY <1>1
  <2>6. used = 0 => free > 0 /\ work_items # {}
    BY <1>1, <1>3 DEF thin_done
  <2>7. k = IF free <= Cardinality(work_items) THEN free ELSE Cardinality(work_items)
    BY <2>4, <2>5, MinTwo
  <2> HIDE DEF k, free
  <2>8. k \in Nat /\ used + k <= tokens + 1 /\ used + k >= 1
    BY <1>1, <2>4, <2>5, <2>6, <2>7
  <2>9. tokens' = used + k - 1
    BY <1>1, <2>1, <2>3, <2>8, MinTwo
  <2>10. Cardinality(working') = Cardinality(working) + k
    <3>1. working \subseteq CGUs /\ working \cap new = {}
      BY <2>3 DEF Inv, Typed, Placed
    <3> QED
      BY <1>1, <2>1, <2>3, <3>1, CountUnion
  <2>11. CGUs' = CGUs /\ Messages' = Messages /\ Mailed' = Mailed
    BY <2>2, SameConfig DEF Mailed
  <2>12. Typed'
    <3>1. tokens' \in Nat /\ running_with_own_token' \in Nat /\ pool' \in Nat
      BY <1>1, <2>1, <2>2, <2>3, <2>8, <2>9
    <3> QED
      BY <1>1, <2>1, <2>2, <2>3, <2>11, <3>1 DEF Typed
  <2>13. Conserved'
    <3>1. TokensIn(inbox) \in Nat /\ TokensIn(inbox') = TokensIn(inbox)
      <4>1. [type |-> "CodegenComplete"] \in Messages /\ inbox \in Seq(Messages)
        BY NewMessages DEF Inv, Typed
      <4> QED
        BY <2>2, <4>1, Sent
    <3>2. tokens' \in Nat /\ stranded \in Nat /\ tokens' + pool' = tokens + pool
      <4>1. tokens' \in Nat /\ pool' \in Nat /\ stranded \in Nat
        BY <1>1, <2>12 DEF Typed
      <4>2. PICK t \in Nat : t = tokens'
        BY <4>1
      <4>3. PICK p \in Nat : p = pool'
        BY <4>1
      <4>4. p = pool + tokens - t
        BY <2>2, <4>2, <4>3
      <4>5. pool \in Nat /\ tokens \in Nat
        BY <1>1
      <4>6. t + p = tokens + pool
        BY <4>4, <4>5
      <4> QED
        BY <4>1, <4>2, <4>3, <4>6
    <3>3. tokens' + pool' + stranded' + TokensIn(inbox') = config'.available
      BY <1>1, <2>2, <3>1, <3>2 DEF Inv, Conserved
    <3> QED
      BY <2>2, <3>3 DEF Conserved, Loop, Ended
  <2>14. Counted'
    <3>1. Running' = used + k
      BY <1>1, <2>1, <2>2, <2>3, <2>8 DEF Running, running_with_any_token
    <3>2. Unread' = Unread /\ Cardinality(Unread) \in Nat
      <4>1. [type |-> "CodegenComplete"] \in Messages /\ inbox \in Seq(Messages)
        BY NewMessages DEF Inv, Typed
      <4>2. Results(inbox) = Cardinality(Unread) /\ Unread' = Unread
        BY <2>2 DEF Results, Unread
      <4> QED
        BY <4>1, <4>2, Sent
    <3>3. RunningExact'
      BY <1>1, <2>2, <2>4, <2>8, <2>10, <3>1, <3>2 DEF Inv, Counted, RunningExact
    <3>4. running_with_own_token' = tokens' + 1
      BY <1>1, <2>1, <2>3, <2>8, <2>9
    <3>5. running_with_own_token' <= tokens' + 1 /\ tokens' + 1 <= running_with_own_token'
      <4>1. tokens' \in Nat /\ running_with_own_token' \in Nat
        BY <2>12 DEF Typed
      <4>2. \A a, b \in Nat : a = b + 1 => a <= b + 1 /\ b + 1 <= a
        OBVIOUS
      <4> QED
        BY <3>4, <4>1, <4>2
    <3> QED
      BY <1>1, <2>2, <3>3, <3>5 DEF Counted, Ended, Loop, Thin
  <2>15. Asked'
    BY <1>1, <2>2 DEF Inv, Asked, Loop
  <2>16. MainEnds' /\ ErrorsTold'
    BY <1>1, <2>2 DEF Inv, MainEnds, Complete, Thin, Final, AbortIsExplained, ErrorsTold, Told
  <2>17. Placed'
    BY <2>1, <2>2, <2>3, <2>11 DEF Inv, Placed
  <2>18. Kept'
    BY <1>1, <2>1, <2>2, <2>3, <2>11 DEF Inv, Kept
  <2> QED
    BY <2>12, <2>13, <2>14, <2>15, <2>16, <2>17, <2>18 DEF Inv
<1> QED
  BY <1>2, <1>3

\* One message in do_thin_lto.
LEMMA ThinReceiveInv ==
  ASSUME Inv, thin_receive
  PROVE  Inv'
<1>1. /\ coordinator = "thin_recv" /\ inbox # <<>> /\ ~Ended /\ ~Loop /\ Thin
      /\ result = "none" /\ main \notin Final \cup {"join"} /\ main_thread_state # "Lending"
      /\ Running = running_with_own_token /\ needs_lto = {} /\ import_only = {}
      /\ tokens \in Nat /\ pool \in Nat /\ stranded \in Nat /\ running_with_own_token \in Nat
      /\ running_with_own_token <= tokens + 1 /\ Typed
  BY DEF thin_receive, Ended, Loop, Thin, Inv, Typed, Counted, MainEnds, Kept, Running,
         running_with_any_token
<1>2. CASE PanicOn(Head(inbox)) # "none"
  <2>1. PICK r : r = PanicOn(Head(inbox))
    OBVIOUS
  <2>2. EndWith(r) /\ MayEnd(r)
    BY <1>1, <1>2, <2>1, PanicFacts DEF thin_receive
  <2> QED
    BY <1>1, <2>2, EndInv
<1>3. CASE PanicOn(Head(inbox)) = "none"
  <2>1. PICK m : m = Head(inbox)
    OBVIOUS
  <2>2. /\ inbox' = Tail(inbox) /\ coordinator' = "thin_top"
        /\ UNCHANGED <<config, main, next, errors, cgu_messages, main_thread_state,
                       work_items, needs_lto, import_only, result, working,
                       failing, pending, pool, stranded>>
    BY <1>3 DEF thin_receive, mainVars
  <2>3. Left(m) /\ CGUs' = CGUs /\ Messages' = Messages
    BY <1>1, <2>1, <2>2, LeftFacts, SameConfig
  <2>4. /\ Cardinality(working) \in Nat /\ Cardinality(failing) \in Nat
        /\ Running = Cardinality(working) + Cardinality(failing) + Cardinality(Unread)
    BY <1>1, CountCGUs DEF Inv, Typed, Counted, RunningExact
  <2>5. inbox' \in Seq(Messages) /\ TokensIn(inbox') \in Nat
    BY <2>3 DEF Left
  <2>6. CASE /\ m.type = "Token"
             /\ tokens' = IF m.ok THEN tokens + 1 ELSE tokens
             /\ diagnostics' = IF m.ok THEN diagnostics ELSE fatal
             /\ codegen_state' = IF m.ok THEN codegen_state ELSE "Aborted"
             /\ UNCHANGED <<running_with_own_token, compiled>>
    <3>1. /\ m.ok \in BOOLEAN /\ ~Carries(m) /\ ~Reply(m)
          /\ IsToken(m) <=> m.ok
      BY <2>3, <2>6, MessageFields DEF Left, Carries, Reply, IsToken
    <3>2. \/ tokens' = tokens + 1 /\ UNCHANGED <<diagnostics, codegen_state>>
             /\ TokensIn(inbox) = TokensIn(inbox') + 1
          \/ tokens' = tokens /\ diagnostics' = diagnostics + 1 /\ codegen_state' = "Aborted"
             /\ TokensIn(inbox) = TokensIn(inbox')
      BY <2>3, <2>5, <2>6, <3>1 DEF fatal, Left
    <3>3. Typed'
      <4>1. tokens' \in Nat /\ diagnostics' \in Nat
            /\ codegen_state' \in {"Ongoing", "Completed", "Aborted"}
        BY <1>1, <3>2 DEF Typed
      <4> QED
        BY <1>1, <2>2, <2>3, <2>5, <2>6, <4>1 DEF Typed
    <3>4. Conserved'
      <4>1. tokens' + pool' + stranded' + TokensIn(inbox') = config'.available
        BY <1>1, <2>2, <2>5, <3>2 DEF Inv, Conserved
      <4> QED
        BY <2>2, <4>1 DEF Conserved, Loop, Ended
    <3>5. Counted'
      <4>1. Running' = Running /\ Cardinality(Unread') = Cardinality(Unread)
        BY <2>2, <2>3, <2>6 DEF Running, running_with_any_token, Left
      <4>2. RunningExact'
        BY <2>2, <2>4, <4>1 DEF RunningExact
      <4>3. running_with_own_token' <= tokens' + 1
        BY <1>1, <2>6, <3>2
      <4> QED
        BY <1>1, <2>2, <4>2, <4>3 DEF Counted, Ended, Loop, Thin
    <3>6. Asked'
      BY <1>1, <2>2, <2>3, <3>2 DEF Inv, Asked, Loop, Left
    <3>7. MainEnds'
      BY <1>1, <2>2, <2>3, <3>2 DEF Inv, MainEnds, Complete, Thin, Final, AbortIsExplained, Left
    <3>8. ErrorsTold'
      <4>1. Told => Told'
        BY <1>1, <2>2, <3>2 DEF Typed, Told
      <4>2. codegen_state' = "Aborted" /\ codegen_state # "Aborted" => Told'
        BY <1>1, <3>2 DEF Typed, Told
      <4> QED
        BY <2>2, <2>3, <4>1, <4>2, RestTold DEF Inv, ErrorsTold
    <3>9. Placed' /\ Kept'
      BY <1>1, <2>2, <2>3, <2>6, <3>1, <3>2 DEF Inv, Placed, Kept, Left
    <3> QED
      BY <3>3, <3>4, <3>5, <3>6, <3>7, <3>8, <3>9 DEF Inv
  <2>7. CASE /\ m.type = "WorkItem"
             /\ running_with_own_token' = running_with_own_token - 1
             /\ compiled' = IF m.res = "ok" THEN compiled \cup {m.cgu} ELSE compiled
             /\ codegen_state' = IF m.res = "fatal" THEN "Aborted" ELSE codegen_state
             /\ UNCHANGED <<tokens, diagnostics>>
    <3>1. m.res \in {"ok", "fatal"} /\ Running > 0
      BY <1>1, <1>3, <2>1, <2>7, PanicFacts
    <3>2. Carries(m) /\ ~Reply(m) /\ ~IsToken(m) /\ m.cgu \in CGUs /\ (m.res = "fatal" => Told)
      BY <2>3, <2>7, MessageFields DEF Left, Carries, Reply, IsToken, Inv, ErrorsTold
    <3>3. Typed'
      <4>1. compiled' \subseteq CGUs /\ running_with_own_token' \in Nat
        BY <1>1, <2>7, <3>1, <3>2 DEF Typed
      <4>2. codegen_state' \in {"Ongoing", "Completed", "Aborted"}
        BY <1>1, <2>7 DEF Typed
      <4> QED
        BY <1>1, <2>2, <2>3, <2>5, <2>7, <4>1, <4>2 DEF Typed
    <3>4. Conserved'
      <4>1. TokensIn(inbox) = TokensIn(inbox')
        BY <2>3, <3>2 DEF Left
      <4> QED
        BY <1>1, <2>2, <2>7, <4>1 DEF Inv, Conserved, Loop, Ended
    <3>5. Counted'
      <4>1. Running' = Running - 1 /\ Cardinality(Unread) = Cardinality(Unread') + 1
            /\ Cardinality(Unread') \in Nat
        BY <1>1, <2>2, <2>3, <2>7 DEF Running, running_with_any_token, Left
      <4>2. RunningExact'
        BY <2>2, <2>4, <4>1 DEF RunningExact
      <4>3. running_with_own_token' <= tokens' + 1
        BY <1>1, <2>7
      <4> QED
        BY <1>1, <2>2, <4>2, <4>3 DEF Counted, Ended, Loop, Thin
    <3>6. Asked'
      BY <1>1, <2>2, <2>3, <2>7 DEF Inv, Asked, Loop, Left
    <3>7. MainEnds'
      BY <1>1, <2>2, <2>3, <2>7 DEF Inv, MainEnds, Complete, Thin, Final, AbortIsExplained, Left
    <3>8. ErrorsTold'
      BY <2>2, <2>3, <2>7, <3>2, RestTold DEF Inv, ErrorsTold, Told
    <3>9. Placed'
      BY <1>1, <2>2, <2>3, <2>7, <3>1, <3>2 DEF Inv, Placed, Left
    <3>10. Kept'
      BY <1>1, <2>2, <2>3, <2>7, <3>1, <3>2 DEF Inv, Kept, Left
    <3> QED
      BY <3>3, <3>4, <3>5, <3>6, <3>7, <3>8, <3>9, <3>10 DEF Inv
  <2> QED
    BY <1>3, <2>1, <2>6, <2>7 DEF thin_receive
<1> QED
  BY <1>2, <1>3

-----------------------------------------------------------------------------
\* Every step of every thread preserves the invariant.
LEMMA NextInv == Inv /\ [Next]_vars => Inv'
<1> SUFFICES ASSUME Inv, [Next]_vars PROVE Inv'
  OBVIOUS
<1>1. CASE MainThread
  BY <1>1, SignalInv, CheckInv, UnitInv, FinishedInv, JoinInv, DropInv DEF MainThread
<1>2. CASE CoordinatorThread
  BY <1>2, TopInv, ReceiveInv, ThinTopInv, ThinReceiveInv DEF CoordinatorThread
<1>3. CASE helper
  BY <1>3, HelperInv
<1>4. CASE \E cgu \in CGUs : Worker(cgu)
  BY <1>4, EndsInv, EmitsInv, CopyFailsInv, FailsInv DEF Worker
<1>5. CASE UNCHANGED vars
  <2>1. UNCHANGED <<config, main, next, errors, inbox, cgu_messages, diagnostics, coordinator,
                    codegen_state, main_thread_state, work_items, tokens,
                    running_with_own_token, compiled, needs_lto, import_only, result,
                    working, failing, pending, pool, stranded>>
    BY <1>5 DEF vars, mainVars, loopVars, outVars
  <2>2. CGUs' = CGUs /\ Messages' = Messages /\ Mailed' = Mailed
    BY <2>1, SameConfig DEF Mailed
  <2>3. Typed'
    BY <2>1, <2>2 DEF Inv, Typed
  <2>4. Conserved' /\ Counted' /\ Asked'
    BY <2>1 DEF Inv, Conserved, Counted, TokensIn, Ended, RunningExact, Running,
                running_with_any_token, Unread, Loop, Thin, Asked
  <2>5. MainEnds' /\ ErrorsTold'
    BY <2>1 DEF Inv, MainEnds, Complete, Thin, Ended, AbortIsExplained, ErrorsTold, Told
  <2>6. Placed' /\ Kept'
    BY <2>1, <2>2 DEF Inv, Placed, Kept, Thin
  <2> QED
    BY <2>3, <2>4, <2>5, <2>6 DEF Inv
<1> QED
  BY <1>1, <1>2, <1>3, <1>4, <1>5 DEF Next

\* Hence it holds in every state.
LEMMA SpecInv == Spec => []Inv
BY InitInv, NextInv, PTL DEF Spec

\* The runs' invariants follow.
LEMMA InvImplies == Inv => WorkHasToken /\ TokensInUse /\ EndsRight
<1> SUFFICES ASSUME Inv PROVE WorkHasToken /\ TokensInUse /\ EndsRight
  OBVIOUS
<1>1. /\ tokens \in Nat /\ pool \in Nat /\ stranded \in Nat /\ running_with_own_token \in Nat
      /\ Cardinality(working) \in Nat /\ Cardinality(failing) \in Nat
  BY CountCGUs DEF Inv, Typed
<1>2. TokensIn(inbox) \in Nat /\ Cardinality(Unread) \in Nat
  <2>1. [type |-> "CodegenComplete"] \in Messages /\ inbox \in Seq(Messages)
    BY NewMessages DEF Inv, Typed
  <2>2. Results(inbox) = Cardinality(Unread)
    BY DEF Results, Unread
  <2> QED
    BY <2>1, <2>2, Sent
<1>3. coordinator \in {"top", "recv", "thin_top", "thin_recv", "ended"}
  BY DEF Inv, Typed
<1>4. ~Ended => Running = Cardinality(working) + Cardinality(failing) + Cardinality(Unread)
  BY DEF Inv, Counted, RunningExact
<1>5. WorkHasToken
  <2> DEFINE busy == IF main = "codegen" THEN 1 ELSE 0
  <2>1. CASE Loop
    <3>1. ~Ended /\ running_with_own_token <= tokens
      BY <2>1 DEF Loop, Ended, Inv, Counted
    <3>2. Running + busy <= running_with_own_token + 1
      BY <1>1, <2>1 DEF Running, running_with_any_token, Inv, Asked
    <3>3. Running \in Nat /\ Cardinality(working) <= Running
      BY <1>1, <1>2, <1>4, <3>1
    <3>4. busy \in Nat
      OBVIOUS
    <3> HIDE DEF busy
    <3>5. Cardinality(working) + busy <= tokens + 1
      BY <1>1, <3>1, <3>2, <3>3, <3>4
    <3> QED
      BY <3>5 DEF WorkHasToken, busy
  <2>2. CASE Thin
    <3>1. /\ ~Ended /\ running_with_own_token <= tokens + 1 /\ busy = 0
          /\ Running = running_with_own_token
      BY <1>1, <2>2 DEF Thin, Ended, Inv, Counted, MainEnds, Complete, Running,
                        running_with_any_token
    <3>2. Cardinality(working) <= Running
      BY <1>1, <1>2, <1>4, <3>1
    <3> HIDE DEF busy
    <3>3. Cardinality(working) + busy <= tokens + 1
      BY <1>1, <3>1, <3>2
    <3> QED
      BY <3>3 DEF WorkHasToken, busy
  <2>3. CASE Ended
    <3>1. CASE result \notin {"worker panicked", "assertion", "import assertion"}
      <4>1. working = {}
        BY <2>3, <3>1 DEF Inv, Typed, Counted, Panics
      <4>2. Cardinality(working) = 0
        BY <4>1, FS_EmptySet
      <4>3. Cardinality(working) + busy <= tokens + 1
        BY <1>1, <4>2
      <4> QED
        BY <4>3 DEF WorkHasToken
    <3> QED
      BY <3>1 DEF WorkHasToken
  <2> QED
    BY <1>3, <2>1, <2>2, <2>3 DEF Loop, Thin, Ended
<1>6. TokensInUse
  <2>1. TypeOK
    <3>1. config.available \in Nat
      BY ConfigsAssumption DEF Inv, Typed
    <3>2. {tokens, pool, stranded} \subseteq 0..config.available
      BY <1>1, <1>2, <3>1 DEF Inv, Conserved
    <3> QED
      BY <3>2 DEF Inv, Typed, TypeOK, Panics
  <2>2. RunningExact /\ (Ended => pool = config.available)
    BY DEF Inv, Counted, Conserved
  <2>3. coordinator \in {"recv", "thin_recv"} =>
          tokens + (IF main_thread_state = "Lending" \/ coordinator = "thin_recv" THEN 1 ELSE 0)
            <= Cardinality(working) + Cardinality(failing) + Cardinality(Unread)
    BY <1>1, <1>2, <1>4 DEF Inv, Counted, Running, running_with_any_token, Ended, Thin
  <2> QED
    BY <2>1, <2>2, <2>3 DEF TokensInUse
<1>7. AbortIsExplained /\ AssertionsHold
  BY DEF Inv, MainEnds, Typed, Panics, AssertionsHold
<1>8. EveryModuleOnce
  <2> SUFFICES ASSUME main = "done"
               PROVE  /\ compiled \cup needs_lto \cup import_only = CGUs
                      /\ compiled \cap (needs_lto \cup import_only) = {}
                      /\ needs_lto \cap import_only = {}
                      /\ config.lto # "Fat" => compiled = CGUs
                      /\ work_items = {} /\ working = {} /\ diagnostics = 0
    BY DEF EveryModuleOnce
  <2>1. /\ result = "Ok" /\ Ended /\ codegen_state = "Completed" /\ work_items = {}
        /\ working = {} /\ failing = {} /\ diagnostics = 0
    BY DEF Inv, MainEnds, Counted, Kept, Final
  <2>2. Mailed = {}
    <3>1. DOMAIN inbox = {}
      BY <2>1, NothingIn, Zenon DEF Inv, Conserved
    <3> QED
      BY <3>1 DEF Mailed, MailedIn
  <2>3. next = Len(config.cgus) + 1 /\ Len(config.cgus) \in Nat
    BY <2>1, ConfigsAssumption DEF Inv, MainEnds, Complete, Typed
  <2>4. \A c \in CGUs : c < next
    BY <2>3 DEF CGUs
  <2>5. compiled \cup needs_lto \cup import_only = CGUs
    BY <2>1, <2>2, <2>4 DEF Inv, Kept, Typed
  <2> QED
    BY <2>1, <2>5 DEF Inv, Placed, Kept
<1> QED
  BY <1>5, <1>6, <1>7, <1>8 DEF EndsRight

\* "Each thread doing substantial work must be in possession of a Token": for any
\* number of units, tokens and jobs the workers, and the main thread while it
\* generates code, are never more than the coordinator's tokens and the implicit
\* one, unless the coordinator panicked.
THEOREM CoordinatorWorkHasToken == Spec => []WorkHasToken
BY SpecInv, InvImplies, PTL

\* The coordinator counts its workers exactly, holds no token that does not serve
\* one while it waits for a message, and has given all back when it ends.
THEOREM CoordinatorTokensInUse == Spec => []TokensInUse
BY SpecInv, InvImplies, PTL

\* However the build ends it ends right: a successful one has processed every
\* codegen unit once and left no worker's error unread, one that gives up has told
\* why, and no assertion of the protocol between the threads fails.
THEOREM CoordinatorEndsRight == Spec => []EndsRight
BY SpecInv, InvImplies, PTL

\* An abort is final, and no worker is started after it.
THEOREM CoordinatorAbortIsFinal == Spec => AbortIsFinal
<1>1. ASSUME Inv, [Next]_vars
      PROVE  [codegen_state = "Aborted" =>
                codegen_state' = "Aborted" /\ working' \subseteq working]_vars
  <2> SUFFICES ASSUME Next, codegen_state = "Aborted"
               PROVE  codegen_state' = "Aborted" /\ working' \subseteq working
    BY <1>1
  <2>1. CASE MainThread
    BY <2>1 DEF MainThread, wait_for_signal_to_codegen_item, check, codegen_unit,
                codegen_finished, join, drop, loopVars
  <2>2. CASE loop_top
    <3>1. \A r : EndWith(r) => UNCHANGED <<codegen_state, working>>
      BY DEF EndWith
    <3>2. after_loop => UNCHANGED <<codegen_state, working>>
      BY <3>1 DEF after_loop
    <3>3. CASE /\ take_over \/ lend \/ ask_main_thread \/ go_on
               /\ UNCHANGED codegen_state
      <4>1. Spawn(main_thread_state, {}, running_with_own_token)
        BY <3>3 DEF take_over, lend, ask_main_thread, go_on
      <4>2. running_with_own_token \in Nat /\ running_with_own_token <= tokens
        BY <2>2, <1>1 DEF loop_top, Inv, Typed, Counted, Loop
      <4> QED
        <5>1. PICK own \in Nat : own = running_with_own_token
          BY <4>2
        <5>2. PICK state : state = main_thread_state
          OBVIOUS
        <5>3. Spawn(state, {}, own) /\ own <= tokens /\ {} \in SUBSET work_items
          BY <4>1, <4>2, <5>1, <5>2
        <5>4. working' = working \cup {} \cup {}
          BY <1>1, <5>3, SpawnFacts
        <5> QED
          BY <3>3, <5>4
    <3> QED
      BY <2>2, <3>1, <3>2, <3>3 DEF loop_top
  <2>3. CASE receive
    BY <2>3 DEF receive, EndWith, receive_token, receive_codegen_done, receive_codegen_complete,
                completed, receive_codegen_aborted, receive_work_item, receive_import_only
  <2>4. CASE thin_top
    <3>1. CASE thin_done
      BY <2>4, <3>1 DEF thin_top, EndWith
    <3>2. CASE ~thin_done
      <4>1. PICK new \in kSubset(Min({0, Cardinality(work_items)}), work_items) :
              working' = working \cup new
        BY <2>4, <3>2 DEF thin_top
      <4>2. Typed /\ Cardinality(work_items) \in Nat
        BY <1>1, CountCGUs DEF Inv, Typed
      <4>3. new \subseteq CGUs /\ Cardinality(new) = 0
        BY <4>1, <4>2, MinTwo DEF kSubset, Typed
      <4>4. new = {}
        BY <4>2, <4>3, CountCGUs
      <4> QED
        BY <2>4, <3>2, <4>1, <4>4 DEF thin_top
    <3> QED
      BY <3>1, <3>2
  <2>5. CASE thin_receive
    BY <2>5 DEF thin_receive, EndWith
  <2>6. CASE helper
    BY <2>6 DEF helper, loopVars
  <2>7. CASE \E cgu \in CGUs : Worker(cgu)
    BY <2>7 DEF Worker, worker_ends, worker_emits, worker_copy_fails, worker_fails, loopVars
  <2> QED
    BY <2>1, <2>2, <2>3, <2>4, <2>5, <2>6, <2>7 DEF Next, CoordinatorThread
<1> QED
  BY <1>1, SpecInv, PTL DEF Spec, AbortIsFinal
=============================================================================
