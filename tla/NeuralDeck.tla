----------------------------- MODULE NeuralDeck -----------------------------
(***************************************************************************)
(* neuraldeck::State, InputController and ReplBridge (adapter/src/         *)
(* NeuralDeckState.hpp, NeuralDeckInput.hpp, NeuralDeckRepl.hpp) on top of *)
(* RequestQueue.  The deck and the evaluation share the game thread, so a  *)
(* deck event falls between two queue operations of the owner; the socket  *)
(* worker pushes into the same queue at any moment.                        *)
(***************************************************************************)
EXTENDS RequestQueue, FiniteSets

CONSTANTS
    MaxHistoryEntries,    \* kMaxHistoryEntries
    MaxTranscriptEntries  \* kMaxTranscriptEntries

ASSUME DeckAssumption ==
    MaxHistoryEntries \in Nat \ {0} /\ MaxTranscriptEntries \in Nat \ {0}

VARIABLES
    open,          \* m_open
    f10Down,       \* InputController::m_f10Down
    input,         \* m_input
    history,       \* m_history
    transcript,    \* m_transcript: [sequence, source, ended]
    nextSequence,  \* m_nextSequence
    mine           \* ids of the requests whose reply is the deck's

textVars == << input, history >>
recordVars == << transcript, nextSequence >>
deckVars == << open, f10Down, textVars, recordVars, mine >>
vars == << qvars, deckVars >>

Init ==
    /\ QInit
    /\ open = FALSE /\ f10Down = FALSE
    /\ input = << >> /\ history = << >>
    /\ transcript = << >> /\ nextSequence = 1
    /\ mine = {}

-----------------------------------------------------------------------------
(* Keys and text. *)

\* HandleKey(F10, pressed): a repeated press is not a new one.
KeyDown ==
    /\ f10Down' = TRUE
    /\ open' = (IF f10Down THEN open ELSE ~open)
    /\ UNCHANGED << qvars, textVars, recordVars, mine >>

KeyUp ==
    /\ f10Down' = FALSE
    /\ UNCHANGED << qvars, open, textVars, recordVars, mine >>

Close ==
    /\ open' = FALSE
    /\ UNCHANGED << qvars, f10Down, textVars, recordVars, mine >>

SetInput(text) ==
    /\ OwnerFree
    /\ input' = text
    /\ UNCHANGED << qvars, open, f10Down, history, recordVars, mine >>

ClearTranscript ==
    /\ OwnerFree
    /\ transcript' = << >>
    /\ UNCHANGED << qvars, open, f10Down, textVars, nextSequence, mine >>

\* Room for one more in a sequence of at most `max`: the oldest goes.
MakeRoom(s, max) == IF Len(s) = max THEN Tail(s) ELSE s

\* TakeInput, Remember: no empty text, and no text twice in a row.
Remembered(text) ==
    IF text = << >> \/ (history # << >> /\ history[Len(history)] = text)
    THEN history
    ELSE Append(MakeRoom(history, MaxHistoryEntries), text)

\* A Submit that gives the text to the queue only, for the mutants.
SubmitForgets ==
    /\ OwnerFree /\ input # << >>
    /\ input' = << >>
    /\ Push(input)
    /\ mine' = mine \cup {submitted + 1}
    /\ UNCHANGED << open, f10Down, history, recordVars >>

\* ReplBridge::Submit: the text leaves the input line and enters the history
\* whether or not the queue accepts it; empty text is not pushed.
Submit ==
    /\ OwnerFree /\ input # << >>
    /\ input' = << >>
    /\ history' = Remembered(input)
    /\ Push(input)
    /\ mine' = mine \cup {submitted + 1}
    /\ UNCHANGED << open, f10Down, recordVars >>

-----------------------------------------------------------------------------
(* The queue with the socket worker as second producer, and the replies. *)

PushRemote(text) == Push(text) /\ UNCHANGED deckVars

Take == (Pop \/ CancelAll) /\ UNCHANGED deckVars

\* Record that counts what is left instead of what was recorded, for the mutants.
RecordRenumbers(r, ended) ==
    IF r.id \in mine
    THEN /\ transcript' = Append(MakeRoom(transcript, MaxTranscriptEntries),
                                 [sequence |-> Len(transcript) + 1, source |-> r.source, ended |-> ended])
         /\ nextSequence' = nextSequence + 1
    ELSE UNCHANGED recordVars

\* The reply of a deck request is Record; of any other, the socket worker's.
Record(r, ended) ==
    IF r.id \in mine
    THEN /\ transcript' = Append(MakeRoom(transcript, MaxTranscriptEntries),
                                 [sequence |-> nextSequence, source |-> r.source, ended |-> ended])
         /\ nextSequence' = nextSequence + 1
    ELSE UNCHANGED recordVars

Evaluated ==
    /\ ReplyPopped
    /\ Record(Head(popped), FALSE)
    /\ UNCHANGED << open, f10Down, textVars, mine >>

Cancelled ==
    /\ ReplyCancelled
    /\ Record(Head(cancelled), TRUE)
    /\ UNCHANGED << open, f10Down, textVars, mine >>

-----------------------------------------------------------------------------
Owner == Take \/ Evaluated \/ Cancelled

Next ==
    \/ KeyDown \/ KeyUp \/ Close \/ ClearTranscript \/ Submit \/ Owner
    \/ \E s \in Source : SetInput(s) \/ PushRemote(s)

Spec == Init /\ [][Next]_vars

\* The game thread ticks, and drains or cancels what is queued.
FairSpec == Spec /\ WF_vars(Owner)

-----------------------------------------------------------------------------
\* The replies to the deck's own requests among the first k replies.
DeckAnswers(k) == {i \in 1..k : answered[i].id \in mine}

\* Record k is of the k-th deck request that was answered, whatever the socket
\* worker pushed in between and however much was trimmed or cleared: numbers
\* in the transcript are consecutive and end at the last one given.
RecordsNumbered ==
    /\ nextSequence = Cardinality(DeckAnswers(Len(answered))) + 1
    /\ Len(transcript) <= MaxTranscriptEntries
    /\ \A i \in 1..Len(transcript) :
          /\ transcript[i].sequence = nextSequence - (Len(transcript) - i) - 1
          /\ \E k \in DeckAnswers(Len(answered)) :
                /\ Cardinality(DeckAnswers(k)) = transcript[i].sequence
                /\ answered[k].source = transcript[i].source

\* The history is trimmed to its limit and never holds a text twice in a row.
HistoryTidy ==
    /\ Len(history) <= MaxHistoryEntries
    /\ \A i \in 1..Len(history) : history[i] # << >> /\ (i > 1 => history[i] # history[i - 1])

\* What the deck shows is what happened: every record is of the reply it claims
\* to be, and the history recalls each submitted text once.
RecordsFaithful == RecordsNumbered /\ HistoryTidy

\* Text that leaves the input line is the newest history entry, even when the
\* queue was full or the text too large and Submit answered false.
NoTextLost ==
    [][input # << >> /\ input' = << >> /\ submitted' # submitted =>
          history' # << >> /\ history'[Len(history')] = input]_vars
=============================================================================
