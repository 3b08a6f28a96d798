--------------------------- MODULE BrowserLemmas ---------------------------
(***************************************************************************)
(* What the steps of a page do to the fetches under way: each fetch stays   *)
(* in any set that the new ones and the answered ones belong to.           *)
(***************************************************************************)
EXTENDS Browser, Integers, TLAPS

\* Sequences over a set are sequences over a larger one.
LEMMA SeqMonotone ==
  ASSUME NEW S, NEW T, S \subseteq T, NEW s \in Seq(S)
  PROVE  s \in Seq(T)
OBVIOUS

\* A fetch under way is one of those that may be.
LEMMA CallTyped ==
  ASSUME NEW S, calls \in Seq(S), NEW n \in DOMAIN calls
  PROVE  calls[n] \in S
OBVIOUS

\* A gesture appends what it sends.
LEMMA GestureKeeps ==
  ASSUME NEW S, calls \in Seq(S), NEW sent \in Seq(S), Gesture(sent)
  PROVE  calls' \in Seq(S)
BY DEF Gesture

\* So does one that only reads.
LEMMA LookKeeps ==
  ASSUME NEW S, calls \in Seq(S), NEW sent \in Seq(S), Look(sent)
  PROVE  calls' \in Seq(S)
BY DEF Look

\* A handler that resumes removes its own fetch and appends what it sends.
LEMMA ResumeKeeps ==
  ASSUME NEW S, calls \in Seq(S), NEW n \in DOMAIN calls, NEW sent \in Seq(S), Resume(n, sent)
  PROVE  calls' \in Seq(S)
<1>1. SubSeq(calls, 1, n - 1) \in Seq(S)
  OBVIOUS
<1>2. SubSeq(calls, n + 1, Len(calls)) \in Seq(S)
  OBVIOUS
<1>3. QED
  BY <1>1, <1>2 DEF Resume

\* So it does when it sends nothing.
LEMMA ResumeEnds ==
  ASSUME NEW S, calls \in Seq(S), NEW n \in DOMAIN calls, Resume(n, <<>>)
  PROVE  calls' \in Seq(S)
<1>1. <<>> \in Seq(S)
  OBVIOUS
<1>2. QED
  BY <1>1, ResumeKeeps

\* An answer changes one fetch.
LEMMA ReplyKeeps ==
  ASSUME NEW S, calls \in Seq(S), NEW n \in DOMAIN calls, NEW st, NEW v, Reply(n, st, v),
         [calls[n] EXCEPT !.st = st, !.val = v] \in S
  PROVE  calls' \in Seq(S)
<1>1. calls' = [calls EXCEPT ![n] = [calls[n] EXCEPT !.st = st, !.val = v]]
  BY DEF Reply
<1>2. QED
  BY <1>1

\* Where a fetch is after a handler resumed: those behind it moved up by one.
LEMMA ResumeAt ==
  ASSUME NEW S, calls \in Seq(S), NEW n \in DOMAIN calls, NEW sent \in Seq(S), Resume(n, sent)
  PROVE  /\ Len(calls') = Len(calls) - 1 + Len(sent)
         /\ DOMAIN calls' = 1 .. (Len(calls) - 1 + Len(sent))
         /\ \A k \in 1 .. (n - 1) : calls'[k] = calls[k]
         /\ \A k \in n .. (Len(calls) - 1) : calls'[k] = calls[k + 1]
         /\ \A k \in DOMAIN sent : calls'[Len(calls) - 1 + k] = sent[k]
<1> DEFINE a == SubSeq(calls, 1, n - 1)
           b == SubSeq(calls, n + 1, Len(calls))
<1>0. n \in 1 .. Len(calls) /\ Len(calls) \in Nat /\ Len(sent) \in Nat
  OBVIOUS
<1>1. a \in Seq(S) /\ Len(a) = n - 1 /\ \A k \in 1 .. (n - 1) : a[k] = calls[k]
  BY <1>0
<1>2. b \in Seq(S) /\ Len(b) = Len(calls) - n /\ \A k \in 1 .. (Len(calls) - n) : b[k] = calls[k + n]
  BY <1>0
<1>3. calls' = a \o b \o sent
  BY DEF Resume
<1> HIDE DEF a, b
<1> DEFINE ab == a \o b
<1>4. /\ ab \in Seq(S) /\ Len(ab) = Len(calls) - 1
      /\ \A k \in 1 .. (n - 1) : ab[k] = calls[k]
  BY <1>0, <1>1, <1>2
<1>5. \A k \in n .. (Len(calls) - 1) : ab[k] = calls[k + 1]
  <2>1. ASSUME NEW k \in n .. (Len(calls) - 1) PROVE ab[k] = calls[k + 1]
    <3>1. k - (n - 1) \in 1 .. (Len(calls) - n) /\ k - (n - 1) + n = k + 1
      BY <1>0
    <3>2. ab[k] = b[k - (n - 1)]
      BY <1>0, <1>1, <1>2, SMTT(30)
    <3> QED
      BY <1>2, <3>1, <3>2
  <2> QED
    BY <2>1
<1> HIDE DEF ab
<1>6. calls' = ab \o sent
  BY <1>3 DEF ab
<1>7. /\ Len(calls') = Len(calls) - 1 + Len(sent)
      /\ DOMAIN calls' = 1 .. (Len(calls) - 1 + Len(sent))
  <2>0. ab \in Seq(S)
    BY <1>4
  <2>1. calls' \in Seq(S) /\ Len(calls') = Len(ab) + Len(sent)
    <3>1. ab \o sent \in Seq(S) /\ Len(ab \o sent) = Len(ab) + Len(sent)
      BY <2>0
    <3> QED
      BY <3>1, <1>6
  <2>2. DOMAIN calls' = 1 .. Len(calls')
    BY <2>1
  <2> QED
    BY <1>4, <2>1, <2>2
<1>8. ASSUME NEW k \in DOMAIN sent PROVE calls'[Len(calls) - 1 + k] = sent[k]
  <2>1. k \in 1 .. Len(sent) /\ Len(calls) - 1 \in Nat
    BY <1>0
  <2> QED
    BY <1>0, <1>4, <1>6, <2>1
<1>9. \A k \in 1 .. (Len(calls) - 1) : calls'[k] = ab[k]
  BY <1>0, <1>4, <1>6
<1> QED
  BY <1>0, <1>4, <1>5, <1>7, <1>8, <1>9, SMTT(30)

\* A fetch after the resumption was under way before it, or is a new one.
LEMMA ResumeFrom ==
  ASSUME NEW S, calls \in Seq(S), NEW n \in DOMAIN calls, NEW sent \in Seq(S), Resume(n, sent),
         NEW k \in DOMAIN calls'
  PROVE  \/ \E m \in DOMAIN calls : m # n /\ calls'[k] = calls[m]
         \/ \E j \in DOMAIN sent : calls'[k] = sent[j]
<1>0. n \in 1 .. Len(calls) /\ Len(calls) \in Nat /\ Len(sent) \in Nat /\ DOMAIN sent = 1 .. Len(sent)
  OBVIOUS
<1>1. k \in 1 .. (n - 1) \/ k \in n .. (Len(calls) - 1) \/ k - (Len(calls) - 1) \in DOMAIN sent
  BY <1>0, ResumeAt
<1>2. CASE k \in 1 .. (n - 1)
  BY <1>0, <1>2, ResumeAt, SMTT(30)
<1>3. CASE k \in n .. (Len(calls) - 1)
  BY <1>0, <1>3, ResumeAt, SMTT(30)
<1>4. CASE k - (Len(calls) - 1) \in DOMAIN sent
  <2>1. DOMAIN calls' = 1 .. (Len(calls) - 1 + Len(sent))
    BY ResumeAt
  <2>2. \A j \in DOMAIN sent : calls'[Len(calls) - 1 + j] = sent[j]
    BY ResumeAt
  <2>3. k = Len(calls) - 1 + (k - (Len(calls) - 1))
    BY <1>0, <2>1
  <2> QED
    BY <1>4, <2>2, <2>3
<1> QED
  BY <1>1, <1>2, <1>3, <1>4

\* Every other fetch stays under way, and every new one is.
LEMMA ResumeStays ==
  ASSUME NEW S, calls \in Seq(S), NEW n \in DOMAIN calls, NEW sent \in Seq(S), Resume(n, sent)
  PROVE  /\ \A m \in DOMAIN calls \ {n} : \E k \in DOMAIN calls' : calls'[k] = calls[m]
         /\ \A j \in DOMAIN sent : \E k \in DOMAIN calls' : calls'[k] = sent[j]
<1>0. n \in 1 .. Len(calls) /\ Len(calls) \in Nat /\ Len(sent) \in Nat /\ DOMAIN sent = 1 .. Len(sent)
  OBVIOUS
<1>1. ASSUME NEW m \in DOMAIN calls, m < n PROVE \E k \in DOMAIN calls' : calls'[k] = calls[m]
  BY <1>0, <1>1, ResumeAt
<1>2. ASSUME NEW m \in DOMAIN calls, m > n PROVE \E k \in DOMAIN calls' : calls'[k] = calls[m]
  <2>1. m - 1 \in n .. (Len(calls) - 1) /\ m - 1 + 1 = m /\ m - 1 \in 1 .. (Len(calls) - 1 + Len(sent))
    BY <1>0, <1>2
  <2>2. \A k \in n .. (Len(calls) - 1) : calls'[k] = calls[k + 1]
    BY ResumeAt
  <2>3. DOMAIN calls' = 1 .. (Len(calls) - 1 + Len(sent))
    BY ResumeAt
  <2>4. calls'[m - 1] = calls[m]
    BY <2>1, <2>2
  <2> QED
    BY <2>1, <2>3, <2>4
<1>3. ASSUME NEW j \in DOMAIN sent PROVE \E k \in DOMAIN calls' : calls'[k] = sent[j]
  BY <1>0, <1>3, ResumeAt, SMTT(30)
<1> QED
  BY <1>0, <1>1, <1>2, <1>3

\* Fetches that K gives a name other than 0 have a name of their own.
Apart(K, s) == \A m, k \in DOMAIN s : m # k /\ K[s[m]] # 0 => K[s[m]] # K[s[k]]

\* They still have when a handler resumes, if the one fetch it sends has the
\* name that its own had, or one that no other has.
LEMMA ResumeApart ==
  ASSUME NEW S, calls \in Seq(S), NEW n \in DOMAIN calls, NEW c \in S, Resume(n, <<c>>),
         NEW K, Apart(K, calls),
         K[c] = 0 \/ \A m \in DOMAIN calls \ {n} : K[calls[m]] # K[c]
  PROVE  Apart(K, calls')
<1> DEFINE sent == <<c>>
           From(k) == IF k < n THEN k ELSE k + 1
<1>0. /\ n \in 1 .. Len(calls) /\ Len(calls) \in Nat /\ DOMAIN calls = 1 .. Len(calls)
      /\ sent \in Seq(S) /\ Len(sent) = 1 /\ DOMAIN sent = {1} /\ sent[1] = c /\ Resume(n, sent)
  OBVIOUS
<1> HIDE DEF sent
<1>1. DOMAIN calls' = 1 .. Len(calls)
  <2>1. DOMAIN calls' = 1 .. (Len(calls) - 1 + Len(sent))
    BY <1>0, ResumeAt
  <2> QED
    BY <1>0, <2>1
<1>2. \A k \in 1 .. (Len(calls) - 1) : From(k) \in DOMAIN calls \ {n} /\ calls'[k] = calls[From(k)]
  <2>1. /\ \A k \in 1 .. (n - 1) : calls'[k] = calls[k]
        /\ \A k \in n .. (Len(calls) - 1) : calls'[k] = calls[k + 1]
    BY <1>0, ResumeAt
  <2> QED
    BY <1>0, <2>1
<1>3. calls'[Len(calls)] = c
  <2>1. \A k \in DOMAIN sent : calls'[Len(calls) - 1 + k] = sent[k]
    BY <1>0, ResumeAt
  <2> QED
    BY <1>0, <2>1
<1> SUFFICES ASSUME NEW m \in DOMAIN calls', NEW k \in DOMAIN calls', m # k, K[calls'[m]] # 0
             PROVE  K[calls'[m]] # K[calls'[k]]
  BY DEF Apart
<1>4. CASE m # Len(calls) /\ k # Len(calls)
  <2>1. m \in 1 .. (Len(calls) - 1) /\ k \in 1 .. (Len(calls) - 1) /\ From(m) # From(k)
    BY <1>0, <1>1, <1>4
  <2> HIDE DEF From
  <2> QED
    BY <1>2, <2>1, SMTT(30) DEF Apart
<1>5. CASE m = Len(calls)
  <2>1. k \in 1 .. (Len(calls) - 1)
    BY <1>0, <1>1, <1>5
  <2> HIDE DEF From
  <2> QED
    BY <1>2, <1>3, <1>5, <2>1
<1>6. CASE k = Len(calls)
  <2>1. m \in 1 .. (Len(calls) - 1)
    BY <1>0, <1>1, <1>6
  <2> HIDE DEF From
  <2> QED
    BY <1>2, <1>3, <1>6, <2>1
<1> QED
  BY <1>4, <1>5, <1>6

\* So they have when it sends nothing.
LEMMA EndApart ==
  ASSUME NEW S, calls \in Seq(S), NEW n \in DOMAIN calls, Resume(n, <<>>), NEW K, Apart(K, calls)
  PROVE  Apart(K, calls')
<1> DEFINE sent == <<>>
           From(k) == IF k < n THEN k ELSE k + 1
<1>0. /\ n \in 1 .. Len(calls) /\ Len(calls) \in Nat /\ DOMAIN calls = 1 .. Len(calls)
      /\ sent \in Seq(S) /\ Len(sent) = 0 /\ Resume(n, sent)
  OBVIOUS
<1> HIDE DEF sent
<1>1. DOMAIN calls' = 1 .. (Len(calls) - 1)
  <2>1. DOMAIN calls' = 1 .. (Len(calls) - 1 + Len(sent))
    BY <1>0, ResumeAt
  <2> QED
    BY <1>0, <2>1
<1>2. \A k \in 1 .. (Len(calls) - 1) : From(k) \in DOMAIN calls \ {n} /\ calls'[k] = calls[From(k)]
  <2>1. /\ \A k \in 1 .. (n - 1) : calls'[k] = calls[k]
        /\ \A k \in n .. (Len(calls) - 1) : calls'[k] = calls[k + 1]
    BY <1>0, ResumeAt
  <2> QED
    BY <1>0, <2>1
<1> SUFFICES ASSUME NEW m \in DOMAIN calls', NEW k \in DOMAIN calls', m # k, K[calls'[m]] # 0
             PROVE  K[calls'[m]] # K[calls'[k]]
  BY DEF Apart
<1>3. m \in 1 .. (Len(calls) - 1) /\ k \in 1 .. (Len(calls) - 1) /\ From(m) # From(k)
  BY <1>0, <1>1
<1> HIDE DEF From
<1> QED
  BY <1>2, <1>3 DEF Apart

\* And when a gesture sends one fetch with a name that no other has.
LEMMA GestureApart ==
  ASSUME NEW S, calls \in Seq(S), NEW c \in S, Gesture(<<c>>), NEW K, Apart(K, calls),
         K[c] = 0 \/ \A m \in DOMAIN calls : K[calls[m]] # K[c]
  PROVE  Apart(K, calls')
<1>1. calls' = Append(calls, c)
  BY DEF Gesture
<1> QED
  BY <1>1 DEF Apart

\* The fetches form a queue, whatever they are.
Queue(s) == s \in Seq({s[k] : k \in DOMAIN s})

\* A sequence over any set is a queue.
LEMMA QueueOver ==
  ASSUME NEW S, NEW s \in Seq(S)
  PROVE  Queue(s)
<1>1. DOMAIN s = 1 .. Len(s) /\ Len(s) \in Nat /\ s = [k \in DOMAIN s |-> s[k]]
  OBVIOUS
<1> QED
  BY <1>1 DEF Queue

\* One fetch is a queue.
LEMMA QueueOne ==
  ASSUME NEW c
  PROVE  Queue(<<c>>) /\ \A j \in DOMAIN <<c>> : <<c>>[j] = c
<1>1. <<c>> \in Seq({c}) /\ DOMAIN <<c>> = {1} /\ <<c>>[1] = c
  OBVIOUS
<1> QED
  BY <1>1, QueueOver

\* So is none.
LEMMA QueueNone == Queue(<<>>) /\ DOMAIN <<>> = {}
<1>1. <<>> \in Seq({}) /\ DOMAIN <<>> = {}
  OBVIOUS
<1> QED
  BY <1>1, QueueOver

\* A gesture keeps what is under way and adds what it sends.
LEMMA Sending ==
  ASSUME Queue(calls), NEW sent, Queue(sent), Gesture(sent)
  PROVE  /\ Queue(calls') /\ Len(calls') = Len(calls) + Len(sent)
         /\ Len(calls) \in Nat /\ Len(sent) \in Nat
         /\ \A k \in DOMAIN calls' : \/ \E m \in DOMAIN calls : calls'[k] = calls[m]
                                     \/ \E j \in DOMAIN sent : calls'[k] = sent[j]
<1> DEFINE S == {calls[k] : k \in DOMAIN calls} \cup {sent[k] : k \in DOMAIN sent}
<1>1. calls \in Seq(S) /\ sent \in Seq(S)
  BY SeqMonotone DEF Queue
<1> HIDE DEF S
<1>2. calls' = calls \o sent
  BY DEF Gesture
<1>3. calls \o sent \in Seq(S) /\ Len(calls \o sent) = Len(calls) + Len(sent)
  BY <1>1
<1>4. Queue(calls')
  BY <1>2, <1>3, QueueOver
<1>5. ASSUME NEW k \in DOMAIN calls'
      PROVE  \/ \E m \in DOMAIN calls : calls'[k] = calls[m]
             \/ \E j \in DOMAIN sent : calls'[k] = sent[j]
  <2>1. k \in 1 .. (Len(calls) + Len(sent)) /\ Len(calls) \in Nat /\ Len(sent) \in Nat
    BY <1>1, <1>2, <1>3
  <2>2. CASE k <= Len(calls)
    BY <1>1, <1>2, <2>1, <2>2
  <2>3. CASE k > Len(calls)
    <3>1. k - Len(calls) \in DOMAIN sent /\ calls'[k] = sent[k - Len(calls)]
      BY <1>1, <1>2, <2>1, <2>3
    <3> QED
      BY <3>1
  <2> QED
    BY <2>1, <2>2, <2>3
<1>6. Len(calls') = Len(calls) + Len(sent)
  BY <1>2, <1>3
<1>7. Len(calls) \in Nat /\ Len(sent) \in Nat
  BY <1>1
<1> QED
  BY <1>4, <1>5, <1>6, <1>7

\* A gesture that sends one fetch.
LEMMA SendingOne ==
  ASSUME Queue(calls), NEW c, Gesture(<<c>>)
  PROVE  /\ Queue(calls') /\ calls' # <<>>
         /\ \A k \in DOMAIN calls' : calls'[k] = c \/ \E m \in DOMAIN calls : calls'[k] = calls[m]
<1> DEFINE sent == <<c>>
<1>1. sent \in Seq({c}) /\ Len(sent) = 1 /\ DOMAIN sent = {1} /\ sent[1] = c /\ Gesture(sent)
  OBVIOUS
<1> HIDE DEF sent
<1>2. Queue(sent)
  BY <1>1, QueueOver
<1>3. /\ Queue(calls') /\ Len(calls') = Len(calls) + Len(sent)
      /\ Len(calls) \in Nat
      /\ \A k \in DOMAIN calls' : \/ \E m \in DOMAIN calls : calls'[k] = calls[m]
                                  \/ \E j \in DOMAIN sent : calls'[k] = sent[j]
  BY <1>1, <1>2, Sending
<1>4. Len(<<>>) = 0
  OBVIOUS
<1> QED
  BY <1>1, <1>3, <1>4

\* A handler that resumes keeps the other fetches and adds what it sends.
LEMMA Resuming ==
  ASSUME Queue(calls), NEW n \in DOMAIN calls, NEW sent, Queue(sent), Resume(n, sent)
  PROVE  /\ Queue(calls') /\ Len(calls') = Len(calls) - 1 + Len(sent)
         /\ Len(calls) \in Nat /\ Len(sent) \in Nat
         /\ \A k \in DOMAIN calls' : \/ \E m \in DOMAIN calls : m # n /\ calls'[k] = calls[m]
                                     \/ \E j \in DOMAIN sent : calls'[k] = sent[j]
         /\ \A m \in DOMAIN calls \ {n} : \E k \in DOMAIN calls' : calls'[k] = calls[m]
<1> DEFINE S == {calls[k] : k \in DOMAIN calls} \cup {sent[k] : k \in DOMAIN sent}
<1>1. calls \in Seq(S) /\ sent \in Seq(S)
  BY SeqMonotone DEF Queue
<1> HIDE DEF S
<1>2. Queue(calls')
  BY <1>1, ResumeKeeps, QueueOver
<1>3. Len(calls') = Len(calls) - 1 + Len(sent)
  BY <1>1, ResumeAt
<1>4. \A k \in DOMAIN calls' : \/ \E m \in DOMAIN calls : m # n /\ calls'[k] = calls[m]
                               \/ \E j \in DOMAIN sent : calls'[k] = sent[j]
  BY <1>1, ResumeFrom
<1>5. \A m \in DOMAIN calls \ {n} : \E k \in DOMAIN calls' : calls'[k] = calls[m]
  BY <1>1, ResumeStays
<1> QED
  BY <1>1, <1>2, <1>3, <1>4, <1>5

\* When it sends one fetch.
LEMMA ResumingOne ==
  ASSUME Queue(calls), NEW n \in DOMAIN calls, NEW c, Resume(n, <<c>>)
  PROVE  /\ Queue(calls') /\ calls' # <<>>
         /\ \A k \in DOMAIN calls' : calls'[k] = c \/ \E m \in DOMAIN calls : m # n /\ calls'[k] = calls[m]
         /\ \A m \in DOMAIN calls \ {n} : \E k \in DOMAIN calls' : calls'[k] = calls[m]
<1> DEFINE sent == <<c>>
<1>1. sent \in Seq({c}) /\ Len(sent) = 1 /\ DOMAIN sent = {1} /\ sent[1] = c /\ Resume(n, sent)
  OBVIOUS
<1> HIDE DEF sent
<1>2. Queue(sent)
  BY <1>1, QueueOver
<1>3. /\ Queue(calls') /\ Len(calls') = Len(calls) - 1 + Len(sent)
      /\ \A k \in DOMAIN calls' : \/ \E m \in DOMAIN calls : m # n /\ calls'[k] = calls[m]
                                  \/ \E j \in DOMAIN sent : calls'[k] = sent[j]
      /\ \A m \in DOMAIN calls \ {n} : \E k \in DOMAIN calls' : calls'[k] = calls[m]
  BY <1>1, <1>2, Resuming
<1>4. Len(<<>>) = 0 /\ Len(calls) \in Nat /\ Len(calls) # 0
  BY DEF Queue
<1> QED
  BY <1>1, <1>3, <1>4

\* When it sends nothing.
LEMMA ResumingNone ==
  ASSUME Queue(calls), NEW n \in DOMAIN calls, Resume(n, <<>>)
  PROVE  /\ Queue(calls')
         /\ \A k \in DOMAIN calls' : \E m \in DOMAIN calls : m # n /\ calls'[k] = calls[m]
         /\ \A m \in DOMAIN calls \ {n} : \E k \in DOMAIN calls' : calls'[k] = calls[m]
<1> DEFINE sent == <<>>
<1>1. sent \in Seq({}) /\ DOMAIN sent = {} /\ Resume(n, sent)
  OBVIOUS
<1> HIDE DEF sent
<1>2. Queue(sent)
  BY <1>1, QueueOver
<1>3. /\ Queue(calls')
      /\ \A k \in DOMAIN calls' : \/ \E m \in DOMAIN calls : m # n /\ calls'[k] = calls[m]
                                  \/ \E j \in DOMAIN sent : calls'[k] = sent[j]
      /\ \A m \in DOMAIN calls \ {n} : \E k \in DOMAIN calls' : calls'[k] = calls[m]
  BY <1>1, <1>2, Resuming
<1> QED
  BY <1>1, <1>3

\* A queue grows at its end.
LEMMA QueueAppend ==
  ASSUME NEW s, Queue(s), NEW x
  PROVE  /\ Queue(Append(s, x)) /\ Append(s, x) # <<>>
         /\ DOMAIN Append(s, x) = DOMAIN s \cup {Len(s) + 1}
         /\ Append(s, x)[Len(s) + 1] = x /\ \A k \in DOMAIN s : Append(s, x)[k] = s[k]
<1> DEFINE S == {s[k] : k \in DOMAIN s} \cup {x}
<1>1. s \in Seq(S) /\ x \in S
  BY SeqMonotone DEF Queue
<1> HIDE DEF S
<1>2. Append(s, x) \in Seq(S)
  BY <1>1
<1>3. Queue(Append(s, x))
  BY <1>2, QueueOver
<1>4. Len(s) \in Nat /\ DOMAIN s = 1 .. Len(s)
  BY <1>1
<1>5. DOMAIN Append(s, x) = DOMAIN s \cup {Len(s) + 1} /\ Append(s, x) # <<>>
  BY <1>1, <1>4
<1>6. Append(s, x)[Len(s) + 1] = x /\ \A k \in DOMAIN s : Append(s, x)[k] = s[k]
  BY <1>1, <1>4
<1> QED
  BY <1>3, <1>5, <1>6

\* It stays one when its elements change.
LEMMA QueueMap ==
  ASSUME NEW s, Queue(s), NEW t, t = [k \in DOMAIN s |-> t[k]]
  PROVE  Queue(t) /\ DOMAIN t = DOMAIN s
<1>1. DOMAIN s = 1 .. Len(s) /\ Len(s) \in Nat
  BY DEF Queue
<1>2. DOMAIN t = 1 .. Len(s)
  BY <1>1
<1>3. t \in Seq({t[k] : k \in DOMAIN t})
  BY <1>1, <1>2
<1> QED
  BY <1>1, <1>2, <1>3 DEF Queue

\* So many copies of one fetch are a queue.
LEMMA QueueOf ==
  ASSUME NEW n \in Nat, NEW c
  PROVE  Queue([h \in 1 .. n |-> c])
<1>1. [h \in 1 .. n |-> c] \in Seq({c})
  OBVIOUS
<1> QED
  BY <1>1, QueueOver

\* A fetch is what it is of these four.
Fetch(c) == c = [op |-> c.op, arg |-> c.arg, st |-> c.st, val |-> c.val]

\* What the page sends is a fetch.
LEMMA CallIsFetch ==
  ASSUME NEW op, NEW arg
  PROVE  /\ Fetch(Call(op, arg)) /\ Call(op, arg).op = op /\ Call(op, arg).arg = arg
         /\ Call(op, arg).st = "sent" /\ Call(op, arg).val = Nil
BY DEF Fetch, Call

\* A fetch with another state and another value.
LEMMA FetchAnswered ==
  ASSUME NEW c, Fetch(c), NEW st, NEW v
  PROVE  [c EXCEPT !.st = st, !.val = v] = [op |-> c.op, arg |-> c.arg, st |-> st, val |-> v]
<1> DEFINE d == [c EXCEPT !.st = st]
<1>1. PICK o, a, s, w : c = [op |-> o, arg |-> a, st |-> s, val |-> w]
  BY DEF Fetch
<1>2. d = [op |-> o, arg |-> a, st |-> st, val |-> w]
  BY <1>1
<1>3. [c EXCEPT !.st = st, !.val = v] = [d EXCEPT !.val = v]
  OBVIOUS
<1> HIDE DEF d
<1>4. [d EXCEPT !.val = v] = [op |-> o, arg |-> a, st |-> st, val |-> v]
  BY <1>2
<1> QED
  BY <1>1, <1>3, <1>4

\* An answer changes the state and the value of one fetch.
LEMMA Replying ==
  ASSUME Queue(calls), NEW n \in DOMAIN calls, Fetch(calls[n]), NEW st, NEW v, Reply(n, st, v)
  PROVE  /\ Queue(calls') /\ DOMAIN calls' = DOMAIN calls
         /\ \A k \in DOMAIN calls \ {n} : calls'[k] = calls[k]
         /\ calls'[n] = [op |-> calls[n].op, arg |-> calls[n].arg, st |-> st, val |-> v]
<1>1. calls' = [calls EXCEPT ![n] = [calls[n] EXCEPT !.st = st, !.val = v]]
  BY DEF Reply
<1>2. calls' = [k \in DOMAIN calls |-> calls'[k]]
  BY <1>1
<1>3. Queue(calls') /\ DOMAIN calls' = DOMAIN calls
  BY <1>2, QueueMap
<1>4. [calls[n] EXCEPT !.st = st, !.val = v] = [op |-> calls[n].op, arg |-> calls[n].arg, st |-> st, val |-> v]
  BY FetchAnswered
<1> QED
  BY <1>1, <1>3, <1>4

\* No two fetches of the kinds T are under way.
Lone(T, s) == \A m, k \in DOMAIN s : s[m].op \in T /\ s[k].op \in T => m = k
Idle(T, s) == \A k \in DOMAIN s : s[k].op \notin T

\* They still are not when a handler sends one of them only after its own was, or
\* when there was none.
LEMMA LoneResumes ==
  ASSUME Queue(calls), NEW n \in DOMAIN calls, NEW c, Resume(n, <<c>>), NEW T, Lone(T, calls),
         c.op \in T => calls[n].op \in T \/ Idle(T, calls)
  PROVE  Lone(T, calls')
<1> DEFINE S == {calls[k] : k \in DOMAIN calls} \cup {c}
           K == [x \in S |-> IF x.op \in T THEN 1 ELSE 0]
<1>1. calls \in Seq(S) /\ c \in S
  BY SeqMonotone DEF Queue
<1>2. \A x \in S : K[x] = IF x.op \in T THEN 1 ELSE 0
  OBVIOUS
<1>3. \A k \in DOMAIN calls : calls[k] \in S
  OBVIOUS
<1> HIDE DEF S, K
<1>4. Apart(K, calls)
  BY <1>2, <1>3 DEF Apart, Lone
<1>5. K[c] = 0 \/ \A m \in DOMAIN calls \ {n} : K[calls[m]] # K[c]
  BY <1>1, <1>2, <1>3 DEF Lone, Idle
<1>6. Apart(K, calls')
  BY <1>1, <1>4, <1>5, ResumeApart
<1>7. \A k \in DOMAIN calls' : calls'[k] \in S
  BY <1>1, <1>3, ResumingOne
<1> QED
  BY <1>2, <1>6, <1>7 DEF Apart, Lone

\* When it sends nothing; and none is left if its own was one.
LEMMA LoneEnds ==
  ASSUME Queue(calls), NEW n \in DOMAIN calls, Resume(n, <<>>), NEW T, Lone(T, calls)
  PROVE  Lone(T, calls') /\ (calls[n].op \in T => Idle(T, calls'))
<1> DEFINE S == {calls[k] : k \in DOMAIN calls}
           K == [x \in S |-> IF x.op \in T THEN 1 ELSE 0]
<1>1. calls \in Seq(S)
  BY DEF Queue
<1>2. \A x \in S : K[x] = IF x.op \in T THEN 1 ELSE 0
  OBVIOUS
<1>3. \A k \in DOMAIN calls : calls[k] \in S
  OBVIOUS
<1> HIDE DEF S, K
<1>4. Apart(K, calls)
  BY <1>2, <1>3 DEF Apart, Lone
<1>5. Apart(K, calls')
  BY <1>1, <1>4, EndApart
<1>6. \A k \in DOMAIN calls' : \E m \in DOMAIN calls : m # n /\ calls'[k] = calls[m]
  BY ResumingNone
<1>7. \A k \in DOMAIN calls' : calls'[k] \in S
  BY <1>3, <1>6
<1> QED
  BY <1>2, <1>5, <1>6, <1>7 DEF Apart, Lone, Idle

\* A gesture sends one when there is none.
LEMMA LoneSends ==
  ASSUME Queue(calls), NEW c, Gesture(<<c>>), NEW T, Lone(T, calls), c.op \in T => Idle(T, calls)
  PROVE  Lone(T, calls')
<1>1. calls' = Append(calls, c)
  BY DEF Gesture
<1>2. /\ DOMAIN calls' = DOMAIN calls \cup {Len(calls) + 1}
      /\ calls'[Len(calls) + 1] = c /\ \A k \in DOMAIN calls : calls'[k] = calls[k]
  BY <1>1, QueueAppend
<1> QED
  BY <1>2 DEF Lone, Idle
=============================================================================
