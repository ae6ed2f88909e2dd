-------------------------- MODULE NeuralDeckProofs --------------------------
(***************************************************************************)
(* The NeuralDeck for every limit, every text and every interleaving with  *)
(* the socket worker: what it records is what was answered, no submitted   *)
(* text is lost, and the queue it shares stays the service its users see.  *)
(* Its overlay stays in step with the screen, for any number of popups and *)
(* any length of the fade-out.                                             *)
(***************************************************************************)
EXTENDS NeuralDeck, Overlay, RequestQueueProofs, FiniteSetTheorems

USE QueueAssumption, DeckAssumption

Entry == [sequence : Nat, source : Seq(Byte), ended : BOOLEAN]

\* Types of the deck's state.
DTypeOK ==
    /\ open \in BOOLEAN /\ f10Down \in BOOLEAN
    /\ input \in Seq(Byte) /\ history \in Seq(Seq(Byte))
    /\ transcript \in Seq(Entry) /\ nextSequence \in Nat \ {0}
    /\ mine \subseteq 1..submitted

\* The inductive invariant: the queue's, the types, and what is to be proved.
DInv == QInv /\ DTypeOK /\ RecordsNumbered /\ HistoryTidy

-----------------------------------------------------------------------------
(* Appending to a bounded list. *)

\* t is s with e after it and at most one, the oldest, gone from the front.
Trimmed(s, e, t) ==
    /\ t[Len(t)] = e
    /\ \E d \in {0, 1} :
          /\ Len(t) = Len(s) - d + 1
          /\ \A i \in 1..Len(t) - 1 : i + d \in 1..Len(s) /\ t[i] = s[i + d]

LEMMA RoomMade ==
    ASSUME NEW S, NEW s \in Seq(S), NEW max \in Nat \ {0}, Len(s) <= max, NEW e \in S
    PROVE  /\ Append(MakeRoom(s, max), e) \in Seq(S)
           /\ Len(Append(MakeRoom(s, max), e)) \in 1..max
           /\ Trimmed(s, e, Append(MakeRoom(s, max), e))
  <1> DEFINE m == MakeRoom(s, max)
             t == Append(m, e)
  <1>n. Len(s) \in Nat
    OBVIOUS
  <1>1. CASE Len(s) = max
    <2>1. s # << >> /\ m = Tail(s)
      BY <1>1 DEF MakeRoom
    <2>2. /\ m \in Seq(S) /\ Len(m) = Len(s) - 1 /\ \A i \in 1..Len(m) : m[i] = s[i + 1]
      BY <2>1, HeadThenTail
    <2> HIDE DEF m
    <2>3. /\ t \in Seq(S) /\ Len(t) = Len(m) + 1 /\ t[Len(m) + 1] = e
          /\ \A i \in 1..Len(m) : t[i] = m[i]
      BY <2>2, AppendElements
    <2> HIDE DEF t
    <2>4. /\ Len(t) = Len(s) - 1 + 1 /\ Len(t) \in 1..max
          /\ \A i \in 1..Len(t) - 1 : i + 1 \in 1..Len(s) /\ t[i] = s[i + 1]
      BY <1>n, <1>1, <2>2, <2>3
    <2>5. t[Len(t)] = e
      BY <2>3
    <2> QED
      BY <2>3, <2>4, <2>5 DEF t, m, Trimmed
  <1>2. CASE Len(s) # max
    <2>1. m = s
      BY <1>2 DEF MakeRoom
    <2>3. /\ t \in Seq(S) /\ Len(t) = Len(s) + 1 /\ t[Len(s) + 1] = e
          /\ \A i \in 1..Len(s) : t[i] = s[i]
      BY <2>1, AppendElements
    <2> HIDE DEF t, m
    <2>4. /\ Len(t) = Len(s) - 0 + 1 /\ Len(t) \in 1..max
          /\ \A i \in 1..Len(t) - 1 : i + 0 \in 1..Len(s) /\ t[i] = s[i + 0]
      BY <1>n, <1>2, <2>3
    <2>5. t[Len(t)] = e
      BY <2>3
    <2> QED
      BY <2>3, <2>4, <2>5 DEF t, m, Trimmed
  <1> QED
    BY <1>1, <1>2

-----------------------------------------------------------------------------
(* The ranks of the deck's replies. *)

\* There are finitely many replies.
LEMMA DeckAnswersFinite ==
    ASSUME NEW k \in Nat
    PROVE  IsFiniteSet(DeckAnswers(k)) /\ Cardinality(DeckAnswers(k)) \in Nat
  <1>1. IsFiniteSet(1..k)
    BY FS_Interval
  <1>2. DeckAnswers(k) \subseteq 1..k
    BY DEF DeckAnswers
  <1>3. IsFiniteSet(DeckAnswers(k))
    BY <1>1, <1>2, FS_Subset
  <1> QED
    BY <1>3, FS_CardinalityType

\* A step that answers nothing and claims no answered request leaves the
\* deck's replies as they are.
LEMMA RanksStay ==
    ASSUME DInv, answered' = answered,
           \A i \in 1..Len(answered) : answered[i].id \in mine' <=> answered[i].id \in mine
    PROVE  \A k \in 0..Len(answered) : DeckAnswers(k)' = DeckAnswers(k)
  <1> TAKE k \in 0..Len(answered)
  <1>1. Len(answered) \in Nat
    BY DEF DInv, QInv, QTypeOK
  <1>2. \A i \in 1..k : i \in 1..Len(answered)
    BY <1>1
  <1> QED
    BY <1>2 DEF DeckAnswers

\* The records are faithful after any step that leaves them, or a front part
\* of them, and the deck's replies as they are.
LEMMA RecordsStay ==
    ASSUME DInv, answered' = answered, nextSequence' = nextSequence,
           transcript' = transcript \/ transcript' = << >>,
           \A i \in 1..Len(answered) : answered[i].id \in mine' <=> answered[i].id \in mine
    PROVE  RecordsNumbered'
  <1>1. Len(answered) \in Nat
    BY DEF DInv, QInv, QTypeOK
  <1>2. \A k \in 0..Len(answered) : DeckAnswers(k)' = DeckAnswers(k)
    BY RanksStay
  <1>3. DeckAnswers(Len(answered))' = DeckAnswers(Len(answered))
    <2>1. Len(answered) \in 0..Len(answered)
      BY <1>1
    <2>2. \A k \in 0..Len(answered) :
             {i \in 1..k : answered'[i].id \in mine'} = {i \in 1..k : answered[i].id \in mine}
      BY <1>2 DEF DeckAnswers
    <2> QED
      BY <2>1, <2>2 DEF DeckAnswers
  <1>4. \A k \in DeckAnswers(Len(answered)) : k \in 0..Len(answered)
    BY <1>1 DEF DeckAnswers
  <1>5. nextSequence' = Cardinality(DeckAnswers(Len(answered)))' + 1
    BY <1>3 DEF DInv, RecordsNumbered
  <1>6. Len(transcript') <= MaxTranscriptEntries
    BY DEF DInv, RecordsNumbered
  <1>7. CASE transcript' = << >>
    BY <1>5, <1>6, <1>7 DEF RecordsNumbered
  <1>8. CASE transcript' = transcript
    BY <1>2, <1>3, <1>4, <1>5, <1>6, <1>8 DEF DInv, RecordsNumbered
  <1> QED
    BY <1>7, <1>8

\* A reply to a request that is the deck's adds one to its replies, at the end;
\* a reply to another's request adds none.
LEMMA NextRank ==
    ASSUME DInv, NEW r \in Request, answered' = Append(answered, r), mine' = mine,
           NEW n \in Nat, n = Len(answered)
    PROVE  /\ Len(answered') = n + 1 /\ answered'[n + 1] = r
           /\ \A k \in 1..n : answered'[k] = answered[k]
           /\ \A k \in 0..n : DeckAnswers(k)' = DeckAnswers(k)
           /\ DeckAnswers(n + 1)' =
                 IF r.id \in mine THEN DeckAnswers(n) \cup {n + 1} ELSE DeckAnswers(n)
           /\ n + 1 \notin DeckAnswers(n)
  <1>0. answered \in Seq(Request)
    BY DEF DInv, QInv, QTypeOK
  <1>1. /\ Len(answered') = n + 1 /\ answered'[n + 1] = r
        /\ \A k \in 1..n : answered'[k] = answered[k]
    BY <1>0, AppendElements
  <1>2. \A k \in 0..n : DeckAnswers(k)' = DeckAnswers(k)
    <2> TAKE k \in 0..n
    <2>1. \A i \in 1..k : i \in 1..n
      OBVIOUS
    <2> QED
      BY <1>1, <2>1 DEF DeckAnswers
  <1>3. {i \in 1..n + 1 : answered'[i].id \in mine} =
            IF r.id \in mine THEN {i \in 1..n : answered[i].id \in mine} \cup {n + 1}
                             ELSE {i \in 1..n : answered[i].id \in mine}
    <2>1. 1..n + 1 = (1..n) \cup {n + 1} /\ n + 1 \notin 1..n
      OBVIOUS
    <2> QED
      BY <1>1, <2>1
  <1>4. n + 1 \notin DeckAnswers(n)
    BY DEF DeckAnswers
  <1>5. DeckAnswers(n + 1)' =
            IF r.id \in mine THEN DeckAnswers(n) \cup {n + 1} ELSE DeckAnswers(n)
    BY <1>3 DEF DeckAnswers
  <1> QED
    BY <1>1, <1>2, <1>4, <1>5

\* A reply keeps the records faithful: the deck's get the next number and the
\* text of the request, another's leave them alone.
LEMMA RecordsReply ==
    ASSUME DInv, NEW r \in Request, NEW ended \in BOOLEAN,
           answered' = Append(answered, r), mine' = mine, Record(r, ended)
    PROVE  /\ RecordsNumbered'
           /\ transcript' \in Seq(Entry) /\ nextSequence' \in Nat \ {0}
  <1>0. PICK n \in Nat : n = Len(answered)
    BY DEF DInv, QInv, QTypeOK
  <1>1. /\ Len(answered') = n + 1 /\ answered'[n + 1] = r
        /\ \A k \in 1..n : answered'[k] = answered[k]
        /\ \A k \in 0..n : DeckAnswers(k)' = DeckAnswers(k)
        /\ DeckAnswers(n + 1)' = IF r.id \in mine THEN DeckAnswers(n) \cup {n + 1} ELSE DeckAnswers(n)
        /\ n + 1 \notin DeckAnswers(n)
    BY <1>0, NextRank
  <1>2. /\ transcript \in Seq(Entry) /\ nextSequence \in Nat \ {0}
        /\ Len(transcript) \in Nat /\ Len(transcript) <= MaxTranscriptEntries
        /\ nextSequence = Cardinality(DeckAnswers(n)) + 1
        /\ \A i \in 1..Len(transcript) :
              /\ transcript[i].sequence = nextSequence - (Len(transcript) - i) - 1
              /\ \E k \in DeckAnswers(n) :
                    /\ Cardinality(DeckAnswers(k)) = transcript[i].sequence
                    /\ answered[k].source = transcript[i].source
    BY <1>0 DEF DInv, DTypeOK, RecordsNumbered
  <1>3. r.source \in Seq(Byte)
    BY DEF Request
  <1>4. DeckAnswers(Len(answered))' = IF r.id \in mine THEN DeckAnswers(n) \cup {n + 1} ELSE DeckAnswers(n)
    BY <1>1 DEF DeckAnswers
  <1>5. \A k \in DeckAnswers(n) : k \in 1..n /\ k \in 0..n
    BY <1>1 DEF DeckAnswers
  <1>6. \A k \in DeckAnswers(n) :
           /\ DeckAnswers(k)' = DeckAnswers(k) /\ answered'[k] = answered[k]
    BY <1>1, <1>5
  <1>7. CASE r.id \notin mine
    <2>1. transcript' = transcript /\ nextSequence' = nextSequence
      BY <1>7 DEF Record, recordVars
    <2>2. DeckAnswers(Len(answered))' = DeckAnswers(n)
      BY <1>4, <1>7
    <2>3. ASSUME NEW i \in 1..Len(transcript')
          PROVE  \E k \in DeckAnswers(Len(answered))' :
                    /\ Cardinality(DeckAnswers(k))' = transcript'[i].sequence
                    /\ answered'[k].source = transcript'[i].source
      <3>1. PICK k \in DeckAnswers(n) :
               /\ Cardinality(DeckAnswers(k)) = transcript[i].sequence
               /\ answered[k].source = transcript[i].source
        BY <1>2, <2>1
      <3>2. /\ Cardinality(DeckAnswers(k))' = transcript'[i].sequence
            /\ answered'[k].source = transcript'[i].source
        BY <1>6, <2>1, <3>1
      <3> QED
        BY <2>2, <3>2
    <2>4. nextSequence' = Cardinality(DeckAnswers(Len(answered)))' + 1
      BY <1>2, <2>1, <2>2
    <2>5. RecordsNumbered'
      BY <1>2, <2>1, <2>3, <2>4 DEF RecordsNumbered
    <2> QED
      BY <1>2, <2>1, <2>5
  <1>8. CASE r.id \in mine
    <2> DEFINE e == [sequence |-> nextSequence, source |-> r.source, ended |-> ended]
    <2>1. e \in Entry /\ e.sequence = nextSequence /\ e.source = r.source
      BY <1>2, <1>3 DEF Entry
    <2>2. /\ transcript' = Append(MakeRoom(transcript, MaxTranscriptEntries), e)
          /\ nextSequence' = nextSequence + 1
      BY <1>8 DEF Record
    <2> HIDE DEF e
    <2>3. /\ transcript' \in Seq(Entry) /\ Len(transcript') \in 1..MaxTranscriptEntries
          /\ Trimmed(transcript, e, transcript')
      BY <1>2, <2>1, <2>2, RoomMade
    <2>t. transcript'[Len(transcript')] = e
      BY <2>3 DEF Trimmed
    <2>4. PICK d \in {0, 1} :
             /\ Len(transcript') = Len(transcript) - d + 1
             /\ \A i \in 1..Len(transcript') - 1 :
                   i + d \in 1..Len(transcript) /\ transcript'[i] = transcript[i + d]
      BY <2>3 DEF Trimmed
    <2>5. /\ DeckAnswers(Len(answered))' = DeckAnswers(n) \cup {n + 1}
          /\ DeckAnswers(n + 1)' = DeckAnswers(n) \cup {n + 1}
      BY <1>1, <1>4, <1>8
    <2>6. Cardinality(DeckAnswers(n) \cup {n + 1}) = nextSequence
      <3>1. IsFiniteSet(DeckAnswers(n))
        BY <1>1, DeckAnswersFinite
      <3>2. Cardinality(DeckAnswers(n) \cup {n + 1}) = Cardinality(DeckAnswers(n)) + 1
        BY <1>1, <3>1, FS_AddElement
      <3> QED
        BY <1>2, <3>2
    <2>7. nextSequence' = Cardinality(DeckAnswers(Len(answered)))' + 1
      BY <2>2, <2>5, <2>6
    <2>8. ASSUME NEW i \in 1..Len(transcript')
          PROVE  /\ transcript'[i].sequence = nextSequence' - (Len(transcript') - i) - 1
                 /\ \E k \in DeckAnswers(Len(answered))' :
                       /\ Cardinality(DeckAnswers(k))' = transcript'[i].sequence
                       /\ answered'[k].source = transcript'[i].source
      <3>n. Len(transcript') \in Nat /\ i \in Nat
        BY <2>3
      <3>1. CASE i = Len(transcript')
        <4>1. transcript'[i] = e
          BY <2>t, <3>1
        <4>2. nextSequence' - (Len(transcript') - i) - 1 = nextSequence
          BY <1>2, <2>2, <3>n, <3>1
        <4>3. n + 1 \in DeckAnswers(Len(answered))'
          BY <2>5
        <4>4. Cardinality(DeckAnswers(n + 1))' = nextSequence /\ answered'[n + 1].source = r.source
          BY <1>1, <2>5, <2>6
        <4> QED
          BY <2>1, <4>1, <4>2, <4>3, <4>4
      <3>2. CASE i # Len(transcript')
        <4>1. i \in 1..Len(transcript') - 1
          BY <3>n, <3>2
        <4>2. i + d \in 1..Len(transcript) /\ transcript'[i] = transcript[i + d]
          BY <2>4, <4>1
        <4>3. transcript[i + d].sequence = nextSequence - (Len(transcript) - (i + d)) - 1
          BY <1>2, <4>2
        <4>4. nextSequence' - (Len(transcript') - i) - 1 = nextSequence - (Len(transcript) - (i + d)) - 1
          BY <1>2, <2>2, <2>4, <3>n
        <4>5. PICK k \in DeckAnswers(n) :
                 /\ Cardinality(DeckAnswers(k)) = transcript[i + d].sequence
                 /\ answered[k].source = transcript[i + d].source
          BY <1>2, <4>2
        <4>6. k \in DeckAnswers(Len(answered))'
          BY <2>5
        <4>7. /\ Cardinality(DeckAnswers(k))' = transcript'[i].sequence
              /\ answered'[k].source = transcript'[i].source
          BY <1>6, <4>2, <4>5
        <4> QED
          BY <4>2, <4>3, <4>4, <4>6, <4>7
      <3> QED
        BY <3>1, <3>2
    <2>9. Len(transcript') <= MaxTranscriptEntries /\ nextSequence' \in Nat \ {0}
      BY <1>2, <2>2, <2>3
    <2>10. RecordsNumbered'
      BY <2>7, <2>8, <2>9 DEF RecordsNumbered
    <2> QED
      BY <2>3, <2>9, <2>10
  <1> QED
    BY <1>7, <1>8

-----------------------------------------------------------------------------
(* The history. *)

\* What Submit remembers is the newest text of a tidy history.
LEMMA TextRemembered ==
    ASSUME DInv, input # << >>, history' = Remembered(input)
    PROVE  /\ history' \in Seq(Seq(Byte)) /\ HistoryTidy'
           /\ history' # << >> /\ history'[Len(history')] = input
  <1>1. /\ input \in Seq(Byte) /\ history \in Seq(Seq(Byte)) /\ Len(history) \in Nat
        /\ Len(history) <= MaxHistoryEntries
        /\ \A i \in 1..Len(history) : history[i] # << >> /\ (i > 1 => history[i] # history[i - 1])
    BY DEF DInv, DTypeOK, HistoryTidy
  <1>2. CASE history # << >> /\ history[Len(history)] = input
    <2>1. history' = history
      BY <1>2 DEF Remembered
    <2> QED
      BY <1>1, <1>2, <2>1 DEF HistoryTidy
  <1>3. CASE ~(history # << >> /\ history[Len(history)] = input)
    <2>1. history' = Append(MakeRoom(history, MaxHistoryEntries), input)
      BY <1>3 DEF Remembered
    <2>2. /\ history' \in Seq(Seq(Byte)) /\ Len(history') \in 1..MaxHistoryEntries
          /\ Trimmed(history, input, history')
      BY <1>1, <2>1, RoomMade
    <2>t. history'[Len(history')] = input
      BY <2>2 DEF Trimmed
    <2>3. PICK d \in {0, 1} :
             /\ Len(history') = Len(history) - d + 1
             /\ \A i \in 1..Len(history') - 1 :
                   i + d \in 1..Len(history) /\ history'[i] = history[i + d]
      BY <2>2 DEF Trimmed
    <2>4. ASSUME NEW i \in 1..Len(history')
          PROVE  history'[i] # << >> /\ (i > 1 => history'[i] # history'[i - 1])
      <3>n. Len(history') \in Nat /\ i \in Nat
        BY <2>2
      <3>1. CASE i = Len(history')
        <4>1. history'[i] = input
          BY <2>t, <3>1
        <4>2. ASSUME i > 1 PROVE history'[i - 1] # input
          <5>1. i - 1 \in 1..Len(history') - 1 /\ (i - 1) + d = Len(history)
            BY <1>1, <2>3, <3>n, <3>1, <4>2
          <5>2. Len(history) \in 1..Len(history) /\ history'[i - 1] = history[Len(history)]
            BY <2>3, <5>1
          <5> QED
            BY <1>1, <1>3, <5>2
        <4> QED
          BY <4>1, <4>2
      <3>2. CASE i # Len(history')
        <4>1. i \in 1..Len(history') - 1 /\ (i > 1 => i - 1 \in 1..Len(history') - 1)
          BY <3>n, <3>2
        <4>2. i + d \in 1..Len(history) /\ history'[i] = history[i + d]
          BY <2>3, <4>1
        <4>3. ASSUME i > 1 PROVE history'[i] # history'[i - 1]
          <5>1. history'[i - 1] = history[(i - 1) + d] /\ (i - 1) + d = (i + d) - 1 /\ i + d > 1
            BY <2>3, <3>n, <4>1, <4>3
          <5>2. history[i + d] # history[(i + d) - 1]
            BY <1>1, <4>2, <5>1
          <5> QED
            BY <4>2, <5>1, <5>2
        <4> QED
          BY <1>1, <4>2, <4>3
      <3> QED
        BY <3>1, <3>2
    <2>5. Len(history') <= MaxHistoryEntries /\ history' # << >>
      BY <2>2
    <2> QED
      BY <2>2, <2>t, <2>4, <2>5 DEF HistoryTidy
  <1> QED
    BY <1>2, <1>3

-----------------------------------------------------------------------------
(* The invariant, the records, and the texts. *)

\* An id given out later is that of no reply.
LEMMA NoReplyYet ==
    ASSUME DInv, mine' = mine \cup {submitted + 1}
    PROVE  \A i \in 1..Len(answered) : answered[i].id \in mine' <=> answered[i].id \in mine
  <1>1. answered \in Seq(Request) /\ accepted \in Seq(Request) /\ submitted \in Nat
    BY DEF DInv, QInv, QTypeOK
  <1>2. ASSUME NEW i \in 1..Len(answered) PROVE answered[i].id # submitted + 1
    <2>1. answered[i] = accepted[i] /\ i \in 1..Len(accepted)
      BY <1>1, PrefixOfAccepted DEF DInv, AnsweredInOrder
    <2>2. accepted[i].id \in Nat /\ accepted[i].id <= submitted
      BY <1>1, <2>1, RequestId DEF DInv, QInv, AcceptedAscending
    <2> QED
      BY <1>1, <2>1, <2>2
  <1> QED
    BY <1>2

LEMMA DeckInit == Init => DInv
  <1> SUFFICES ASSUME Init PROVE DInv
    OBVIOUS
  <1>1. QInv
    BY QueueInit DEF Init
  <1>2. answered = << >> /\ submitted = 0
    BY DEF Init, QInit
  <1>3. DTypeOK
    <2>1. open \in BOOLEAN /\ f10Down \in BOOLEAN /\ mine \subseteq 1..submitted
      BY DEF Init
    <2>2. input \in Seq(Byte) /\ nextSequence \in Nat \ {0}
      BY DEF Init
    <2>3. history \in Seq(Seq(Byte)) /\ transcript \in Seq(Entry)
      BY DEF Init
    <2> QED
      BY <2>1, <2>2, <2>3 DEF DTypeOK
  <1>4. HistoryTidy
    BY DEF Init, HistoryTidy
  <1>5. DeckAnswers(Len(answered)) = {}
    BY <1>2 DEF DeckAnswers
  <1>6. Cardinality({}) = 0
    BY FS_EmptySet
  <1>7. RecordsNumbered
    BY <1>5, <1>6 DEF Init, RecordsNumbered
  <1> QED
    BY <1>1, <1>3, <1>4, <1>7 DEF DInv

\* A step of the queue alone that answers nothing.
LEMMA DeckUntouched ==
    ASSUME DInv, QInv', answered' = answered, submitted' \in Nat, submitted <= submitted',
           UNCHANGED deckVars
    PROVE  DInv'
  <1>1. UNCHANGED << open, f10Down, input, history, transcript, nextSequence, mine >>
    BY DEF deckVars, textVars, recordVars
  <1>2. submitted \in Nat
    BY DEF DInv, QInv, QTypeOK
  <1>3. DTypeOK'
    BY <1>1, <1>2 DEF DInv, DTypeOK
  <1>4. RecordsNumbered'
    BY <1>1, RecordsStay
  <1>5. HistoryTidy'
    BY <1>1 DEF DInv, HistoryTidy
  <1> QED
    BY <1>3, <1>4, <1>5 DEF DInv

\* A step of the deck alone.
LEMMA QueueUntouched ==
    ASSUME DInv, UNCHANGED qvars
    PROVE  QInv'
  BY DEF DInv, qvars, QInv, QTypeOK, OneOperation, Conservation, After, AcceptedAscending,
         QueueBounded

\* A reply, evaluated or cancelled, with what Record does with it.
LEMMA ReplyKeeps ==
    ASSUME DInv, QInv', NEW r \in Request, NEW ended \in BOOLEAN,
           answered' = Append(answered, r), submitted' = submitted, Record(r, ended),
           UNCHANGED << open, f10Down, textVars, mine >>
    PROVE  DInv'
  <1>1. UNCHANGED << open, f10Down, input, history, mine >>
    BY DEF textVars
  <1>2. RecordsNumbered' /\ transcript' \in Seq(Entry) /\ nextSequence' \in Nat \ {0}
    BY <1>1, RecordsReply
  <1>3. DTypeOK'
    BY <1>1, <1>2 DEF DInv, DTypeOK
  <1>4. HistoryTidy'
    BY <1>1 DEF DInv, HistoryTidy
  <1> QED
    BY <1>2, <1>3, <1>4 DEF DInv

\* Every step of the deck, the socket worker and the owner keeps the invariant.
LEMMA DeckStep == DInv /\ [Next]_vars => DInv'
  <1> SUFFICES ASSUME DInv, [Next]_vars PROVE DInv'
    OBVIOUS
  <1>t. /\ submitted \in 0..MaxSubmissions /\ popped \in Seq(Request) /\ cancelled \in Seq(Request)
        /\ DTypeOK /\ RecordsNumbered /\ HistoryTidy /\ QInv
    BY DEF DInv, QInv, QTypeOK
  <1>1. CASE KeyDown \/ KeyUp \/ Close
    <2>1. /\ UNCHANGED qvars /\ UNCHANGED << input, history, transcript, nextSequence, mine >>
          /\ open' \in BOOLEAN /\ f10Down' \in BOOLEAN
      BY <1>t, <1>1 DEF KeyDown, KeyUp, Close, textVars, recordVars, DTypeOK
    <2>2. QInv' /\ answered' = answered /\ submitted' = submitted
      BY <2>1, QueueUntouched DEF qvars
    <2>3. DTypeOK' /\ HistoryTidy'
      BY <1>t, <2>1, <2>2 DEF DTypeOK, HistoryTidy
    <2>4. RecordsNumbered'
      BY <2>1, <2>2, RecordsStay
    <2> QED
      BY <2>2, <2>3, <2>4 DEF DInv
  <1>2. ASSUME NEW s \in Source, SetInput(s) PROVE DInv'
    <2>1. /\ UNCHANGED qvars
          /\ UNCHANGED << open, f10Down, history, transcript, nextSequence, mine >>
          /\ input' \in Seq(Byte)
      BY <1>2 DEF SetInput, recordVars
    <2>2. QInv' /\ answered' = answered /\ submitted' = submitted
      BY <2>1, QueueUntouched DEF qvars
    <2>3. DTypeOK' /\ HistoryTidy'
      BY <1>t, <2>1, <2>2 DEF DTypeOK, HistoryTidy
    <2>4. RecordsNumbered'
      BY <2>1, <2>2, RecordsStay
    <2> QED
      BY <2>2, <2>3, <2>4 DEF DInv
  <1>3. CASE ClearTranscript
    <2>1. /\ UNCHANGED qvars /\ UNCHANGED << open, f10Down, input, history, nextSequence, mine >>
          /\ transcript' = << >>
      BY <1>3 DEF ClearTranscript, textVars
    <2>2. QInv' /\ answered' = answered /\ submitted' = submitted
      BY <2>1, QueueUntouched DEF qvars
    <2>3. DTypeOK' /\ HistoryTidy'
      BY <1>t, <2>1, <2>2 DEF DTypeOK, HistoryTidy
    <2>4. RecordsNumbered'
      BY <2>1, <2>2, RecordsStay
    <2> QED
      BY <2>2, <2>3, <2>4 DEF DInv
  <1>4. CASE Submit
    <2>1. /\ input # << >> /\ input \in Seq(Byte) /\ input' = << >>
          /\ history' = Remembered(input) /\ Push(input) /\ mine' = mine \cup {submitted + 1}
          /\ UNCHANGED << open, f10Down, transcript, nextSequence >>
      BY <1>t, <1>4 DEF Submit, recordVars, DTypeOK
    <2>2. QInv' /\ answered' = answered /\ submitted' = submitted + 1
      BY <1>t, <2>1, QueuePush DEF Push
    <2>3. history' \in Seq(Seq(Byte)) /\ HistoryTidy'
      BY <2>1, TextRemembered
    <2>4. mine' \subseteq 1..submitted'
      BY <1>t, <2>1, <2>2 DEF DTypeOK
    <2>5. DTypeOK'
      BY <1>t, <2>1, <2>3, <2>4 DEF DTypeOK
    <2>6. RecordsNumbered'
      BY <2>1, <2>2, NoReplyYet, RecordsStay
    <2> QED
      BY <2>2, <2>3, <2>5, <2>6 DEF DInv
  <1>5. ASSUME NEW s \in Source, PushRemote(s) PROVE DInv'
    <2>1. Push(s) /\ UNCHANGED deckVars /\ s \in Seq(Byte)
      BY <1>5 DEF PushRemote
    <2>2. QInv' /\ answered' = answered /\ submitted' = submitted + 1
      BY <1>t, <2>1, QueuePush DEF Push
    <2> QED
      BY <1>t, <2>1, <2>2, DeckUntouched
  <1>6. CASE Take
    <2>1. OwnerStep /\ UNCHANGED deckVars /\ answered' = answered /\ submitted' = submitted
      BY <1>6 DEF Take, Pop, CancelAll, OwnerStep
    <2>2. QInv'
      BY <1>t, <2>1, QueueOwner
    <2> QED
      BY <1>t, <2>1, <2>2, DeckUntouched
  <1>7. CASE Evaluated
    <2>1. /\ ReplyPopped /\ popped # << >> /\ answered' = Append(answered, Head(popped))
          /\ submitted' = submitted /\ Record(Head(popped), FALSE)
          /\ UNCHANGED << open, f10Down, textVars, mine >>
      BY <1>7 DEF Evaluated, ReplyPopped
    <2>2. QInv'
      BY <1>t, <2>1, QueueOwner DEF OwnerStep
    <2>3. Head(popped) \in Request
      BY <1>t, <2>1, HeadThenTail
    <2> QED
      BY <2>1, <2>2, <2>3, ReplyKeeps
  <1>8. CASE Cancelled
    <2>1. /\ ReplyCancelled /\ cancelled # << >> /\ answered' = Append(answered, Head(cancelled))
          /\ submitted' = submitted /\ Record(Head(cancelled), TRUE)
          /\ UNCHANGED << open, f10Down, textVars, mine >>
      BY <1>8 DEF Cancelled, ReplyCancelled
    <2>2. QInv'
      BY <1>t, <2>1, QueueOwner DEF OwnerStep
    <2>3. Head(cancelled) \in Request
      BY <1>t, <2>1, HeadThenTail
    <2> QED
      BY <2>1, <2>2, <2>3, ReplyKeeps
  <1>9. CASE UNCHANGED vars
    <2>1. UNCHANGED qvars /\ UNCHANGED deckVars
      BY <1>9 DEF vars
    <2>2. QInv' /\ answered' = answered /\ submitted' = submitted
      BY <2>1, QueueUntouched DEF qvars
    <2> QED
      BY <1>t, <2>1, <2>2, DeckUntouched
  <1> QED
    BY <1>1, <1>2, <1>3, <1>4, <1>5, <1>6, <1>7, <1>8, <1>9 DEF Next, Owner

LEMMA DeckInvariant == Spec => []DInv
  BY DeckInit, DeckStep, PTL DEF Spec

\* For every limit of the transcript and the history, and whatever the socket
\* worker submits in between: record k is of the k-th deck request answered,
\* and the history is trimmed and without immediate repetition.
THEOREM RecordsAreFaithful == Spec => []RecordsFaithful
  <1>1. DInv => RecordsFaithful
    BY DEF DInv, RecordsFaithful
  <1> QED
    BY <1>1, DeckInvariant, PTL

\* The text that Submit takes from the input line is the newest of the history,
\* also when the queue refuses it.
THEOREM TextIsKept == Spec => NoTextLost
  <1>1. ASSUME DInv, [Next]_vars
        PROVE  [input # << >> /\ input' = << >> /\ submitted' # submitted =>
                   history' # << >> /\ history'[Len(history')] = input]_vars
    <2> SUFFICES ASSUME Next, input # << >>, input' = << >>, submitted' # submitted
                 PROVE  history' # << >> /\ history'[Len(history')] = input
      BY <1>1
    <2>1. Submit
      BY DEF Next, KeyDown, KeyUp, Close, ClearTranscript, SetInput, PushRemote, Push, Owner, Take,
             Evaluated, Cancelled, Pop, CancelAll, ReplyPopped, ReplyCancelled, qvars, textVars,
             deckVars
    <2> QED
      BY <1>1, <2>1, TextRemembered DEF Submit
  <1> QED
    BY <1>1, DeckInvariant, PTL DEF Spec, NoTextLost

\* With the deck as a second producer the queue loses, repeats and reorders no
\* request: its invariant holds of the deck's own specification.
THEOREM SharedQueueInvariant == Spec => []QInv
  <1>1. DInv => QInv
    BY DEF DInv
  <1> QED
    BY <1>1, DeckInvariant, PTL

\* Nor does sharing it show to the queue's users: it is still the service.
THEOREM SharedQueueImplementsService == Spec => ImplementsService
  <1>1. Init => Service!Init
    BY ServiceInit DEF Init
  <1>2. DInv /\ [Next]_vars => [Service!Next]_Service!svars
    <2> SUFFICES ASSUME DInv, [Next]_vars PROVE [Service!Next]_Service!svars
      OBVIOUS
    <2>1. QInv /\ input \in Seq(Byte)
      BY DEF DInv, DTypeOK
    <2>2. CASE UNCHANGED qvars
      BY <2>2 DEF qvars, Service!svars
    <2>3. ASSUME NEW s \in Seq(Byte), Push(s) PROVE [Service!Next]_Service!svars
      BY <2>1, <2>3, PushAccepted
    <2>4. CASE OwnerStep
      BY <2>1, <2>4, OwnerAnswers
    <2>5. UNCHANGED qvars \/ OwnerStep \/ \E s \in Seq(Byte) : Push(s)
      BY <2>1 DEF Next, vars, KeyDown, KeyUp, Close, ClearTranscript, SetInput, PushRemote, Submit,
                  Owner, Take, Evaluated, Cancelled, OwnerStep
    <2> QED
      BY <2>2, <2>3, <2>4, <2>5
  <1> QED
    BY <1>1, <1>2, DeckInvariant, PTL DEF Spec, ImplementsService, Service!Spec

-----------------------------------------------------------------------------
(* The overlay. *)

\* OverlayInStep is inductive.  Its last conjuncts make it so: a queued hide, a
\* running fade and a stalled hide exclude each other, so that the one frame
\* that ends a fade is the end of the one close that was begun.
THEOREM OverlayStaysInStep == OSpec => []OverlayInStep
<1>1. OInit => OverlayInStep
  <2> SUFFICES ASSUME OInit PROVE OverlayInStep
    OBVIOUS
  <2>1. OTypeOK
    <3>1. hides \in [Popup -> 0..1] /\ fade \in [Popup -> 0..FadeFrames]
      BY OverlayAssumption DEF OInit
    <3>2. made \in 0..MaxPopups
      BY OverlayAssumption DEF OInit
    <3> QED
      BY <3>1, <3>2 DEF OInit, OTypeOK
  <2>2. ~closing /\ shown = {} /\ overlay = 0
    BY DEF OInit
  <2>3. stalled = {} /\ \A p \in Popup : hides[p] = 0 /\ fade[p] = 0
    BY DEF OInit
  <2> QED
    BY <2>1, <2>2, <2>3 DEF OverlayInStep, Hiding
<1>2. OverlayInStep /\ [ONext]_ovars => OverlayInStep'
  <2> SUFFICES ASSUME OverlayInStep, [ONext]_ovars PROVE OverlayInStep'
    OBVIOUS
  <2> USE OverlayAssumption DEF OverlayInStep, OTypeOK, Hiding, Popup, serviceVars, codewareVars
  <2>1. CASE OnLoad
    BY <2>1 DEF OnLoad
  <2>2. CASE OnUninitialize
    BY <2>2 DEF OnUninitialize
  <2>3. CASE hotkey = "registered" /\ CloseOverlay
    <3>1. overlay \in shown /\ ~Hiding(overlay)
      BY <2>3 DEF CloseOverlay
    <3>2. hides' \in [Popup -> 0..1] /\ hides'[overlay] = 1
      BY <2>3, <3>1 DEF CloseOverlay
    <3>3. \A p \in Popup : p # overlay => hides'[p] = hides[p]
      BY <2>3, <3>1 DEF CloseOverlay
    <3> QED
      BY <2>3, <3>1, <3>2, <3>3 DEF CloseOverlay
  <2>4. CASE hotkey = "registered" /\ OpenOverlay
    <3>1. shown = {} /\ ~closing
      BY <2>4 DEF OpenOverlay
    <3>2. made + 1 \in Popup
      BY <2>4 DEF OpenOverlay
    <3>3. \A p \in Popup : ~Hiding(p)
      BY <3>1
    <3> QED
      BY <2>4, <3>1, <3>2, <3>3 DEF OpenOverlay
  <2>5. CASE StartManager
    BY <2>5 DEF StartManager
  <2>6. ASSUME NEW p \in Popup, ProcessHide(p) PROVE OverlayInStep'
    BY <2>6 DEF ProcessHide
  <2>7. ASSUME NEW p \in Popup, Frame(p) PROVE OverlayInStep'
    <3>1. p \in shown /\ hides[p] = 0 /\ fade[p] \in 1..FadeFrames /\ p \notin stalled
      BY <2>7 DEF Frame
    <3>2. fade' \in [Popup -> 0..FadeFrames] /\ fade'[p] = fade[p] - 1
      BY <2>7, <3>1 DEF Frame
    <3>3. \A q \in Popup : q # p => fade'[q] = fade[q]
      BY <2>7 DEF Frame
    <3>4. hides' = hides /\ UNCHANGED << manager, made, hotkey, stalled >>
      BY <2>7 DEF Frame, OnOverlayHidden
    <3>5. CASE fade[p] = 1
      <4>1. shown' = shown \ {p} /\ fade'[p] = 0
        BY <2>7, <3>2, <3>5 DEF Frame
      <4>2. /\ overlay' = IF overlay = p THEN 0 ELSE overlay
            /\ closing' = (IF overlay = p THEN FALSE ELSE closing)
        BY <2>7, <3>5 DEF Frame, OnOverlayHidden
      <4>3. closing' \in BOOLEAN /\ overlay' \in Popup \cup {0}
        BY <4>2
      <4>4. hotkey # "gone" => overlay = p
        BY <3>1
      <4>5. hotkey # "gone" => shown' = {} /\ overlay' = 0 /\ ~closing'
        BY <4>1, <4>2, <4>4
      <4>6. \A q \in Popup : Hiding(q)' <=> q # p /\ Hiding(q)
        BY <3>1, <3>3, <3>4, <4>1
      <4>7. OTypeOK'
        BY <3>2, <3>4, <4>1, <4>3
      <4>8. /\ \A q \in Popup : /\ hides'[q] > 0 => fade'[q] = 0
                                /\ Hiding(q)' => q \in shown'
            /\ \A q \in stalled' : hides'[q] = 0 /\ fade'[q] = 0
        BY <3>1, <3>3, <3>4, <4>1, <4>6
      <4> QED
        BY <3>4, <4>5, <4>7, <4>8
    <3>6. CASE fade[p] # 1
      <4>1. UNCHANGED << shown, overlay, closing >> /\ fade'[p] > 0
        BY <2>7, <3>1, <3>2, <3>6 DEF Frame
      <4>2. \A q \in Popup : fade'[q] > 0 <=> fade[q] > 0
        BY <3>1, <3>3, <4>1
      <4>3. OTypeOK'
        BY <3>2, <3>4, <4>1
      <4>4. hotkey # "gone" =>
               closing' <=> \E q \in shown' : Hiding(q)'
        BY <3>4, <4>1, <4>2
      <4>5. /\ \A q \in Popup : /\ hides'[q] > 0 => fade'[q] = 0
                                /\ Hiding(q)' => q \in shown'
            /\ \A q \in stalled' : hides'[q] = 0 /\ fade'[q] = 0
        BY <3>1, <3>3, <3>4, <4>1, <4>2
      <4> QED
        BY <3>4, <4>1, <4>3, <4>4, <4>5
    <3> QED
      BY <3>5, <3>6
  <2>8. ASSUME NEW p \in Popup, HideStalls(p) PROVE OverlayInStep'
    <3>1. p \in shown
      BY <2>8 DEF HideStalls
    <3>2. /\ hides' \in [Popup -> 0..1] /\ hides'[p] = 0
          /\ fade' \in [Popup -> 0..FadeFrames] /\ fade'[p] = 0
      BY <2>8 DEF HideStalls
    <3>3. \A q \in Popup : q # p => hides'[q] = hides[q] /\ fade'[q] = fade[q]
      BY <2>8 DEF HideStalls
    <3>4. stalled' = stalled \cup {p} /\ UNCHANGED << serviceVars, manager, made, shown >>
      BY <2>8 DEF HideStalls
    <3>5. \A q \in Popup : Hiding(q)' <=> Hiding(q)
      BY <2>8, <3>2, <3>3, <3>4 DEF HideStalls
    <3> QED
      BY <3>1, <3>2, <3>3, <3>4, <3>5
  <2>9. CASE UNCHANGED ovars
    BY <2>9 DEF ovars
  <2> QED
    BY <2>1, <2>2, <2>3, <2>4, <2>5, <2>6, <2>7, <2>8, <2>9 DEF ONext, OnNeuralDeckKey
<1> QED
  BY <1>1, <1>2, PTL DEF OSpec

\* No OnHidden is put off: a popup that is hiding is not closed again, because
\* m_closing is set while it hides, and no hide event is left to start its fade
\* over once the fade runs.
THEOREM OnHiddenNeverPutOff == OSpec => NeverPutOff
<1> DEFINE A == \A p \in Popup : Hiding(p) => StepsLeft(p)' <= StepsLeft(p)
<1>1. OverlayInStep /\ [ONext]_ovars => [A]_ovars
  <2> SUFFICES ASSUME OverlayInStep, ONext, NEW p \in Popup, Hiding(p)
               PROVE  StepsLeft(p)' <= StepsLeft(p)
    OBVIOUS
  <2>1. /\ hides[p] \in 0..1 /\ fade[p] \in 0..FadeFrames /\ FadeFrames \in Nat
        /\ hides \in [Popup -> 0..1] /\ fade \in [Popup -> 0..FadeFrames]
    BY OverlayAssumption DEF OverlayInStep, OTypeOK
  <2>2. CASE OnLoad \/ OnUninitialize \/ StartManager
    <3>1. UNCHANGED << hides, fade >>
      BY <2>2 DEF OnLoad, OnUninitialize, StartManager, codewareVars
    <3> QED
      BY <2>1, <3>1 DEF StepsLeft
  <2>3. CASE hotkey = "registered" /\ CloseOverlay
    <3>1. p # overlay
      BY <2>3 DEF CloseOverlay, OverlayInStep
    <3>2. hides'[p] = hides[p] /\ fade' = fade
      BY <2>1, <2>3, <3>1 DEF CloseOverlay
    <3> QED
      BY <2>1, <3>2 DEF StepsLeft
  <2>4. CASE hotkey = "registered" /\ OpenOverlay
    BY <2>1, <2>4 DEF OpenOverlay, StepsLeft
  <2>5. ASSUME NEW q \in Popup, ProcessHide(q) PROVE StepsLeft(p)' <= StepsLeft(p)
    <3>1. CASE q = p
      BY <2>1, <2>5, <3>1 DEF ProcessHide, StepsLeft
    <3>2. CASE q # p
      BY <2>1, <2>5, <3>2 DEF ProcessHide, StepsLeft
    <3> QED
      BY <3>1, <3>2
  <2>6. ASSUME NEW q \in Popup, Frame(q) PROVE StepsLeft(p)' <= StepsLeft(p)
    BY <2>1, <2>6 DEF Frame, StepsLeft
  <2>7. ASSUME NEW q \in Popup, HideStalls(q) PROVE StepsLeft(p)' <= StepsLeft(p)
    BY <2>1, <2>7 DEF HideStalls, StepsLeft
  <2> QED
    BY <2>2, <2>3, <2>4, <2>5, <2>6, <2>7 DEF ONext, OnNeuralDeckKey
<1> QED
  BY <1>1, OverlayStaysInStep, PTL DEF OSpec, NeverPutOff
=============================================================================
