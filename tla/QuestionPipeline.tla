-------------------------- MODULE QuestionPipeline --------------------------
(***************************************************************************)
(* What becomes of a question in the reference deployment: the ambiguity   *)
(* check and the conversation it starts, relative dates, the fake provider *)
(* and the gate with its repairs.  QueryOrchestrator allows any provider   *)
(* and any verdict; here the question's words, the reference schema and    *)
(* the semantic layer decide.                                              *)
(*                                                                         *)
(* One user asks one question at a time; days pass meanwhile.  The user    *)
(* answers a clarification by asking again in the words of one of its      *)
(* readings, which is the only way the code knows.                         *)
(***************************************************************************)
EXTENDS RelativeDates, FakeProvider

CONSTANTS
    Questions,      \* what is asked
    Callers,        \* who asks
    RolesOf,        \* [Callers -> SUBSET roles]
    TenantOf,       \* [Callers -> Tenants]
    Tenants,
    KnownColumns,   \* the schema's columns, and some a statement may invent
    MaxRepair,      \* max_repair_attempts
    LastYear,       \* bound: the clock stops with its January
    NoStatement,
    Nobody

INSTANCE AmbiguityDetector

Gate == INSTANCE SqlGate WITH
    Tables <- AllTables,
    Columns <- KnownColumns,
    TableOf <- [c \in KnownColumns |-> c[1]],
    NameOf <- [c \in KnownColumns |-> c[2]],
    Classification <- [c \in KnownColumns |-> ClassOf(c)],
    DeniedTables <- {},
    AllowedTables <- AllTables

ASSUME PipelineAssumption ==
    /\ Questions \subseteq Seq(STRING)
    /\ <<>> \notin Questions
    /\ DOMAIN Scripts \subseteq Questions
    /\ \A q \in DOMAIN Scripts :
          /\ Len(Scripts[q]) \in Nat \ {0}
          /\ DOMAIN Scripts[q] = 1..Len(Scripts[q])
          /\ \A i \in DOMAIN Scripts[q] :
                /\ {"flaws", "shape", "names", "tables", "columns"}
                      \subseteq DOMAIN Scripts[q][i]
                /\ Scripts[q][i].tables \subseteq AllTables
                /\ Scripts[q][i].flaws \subseteq Gate!FlawCodes
                /\ Scripts[q][i].shape \subseteq Gate!ShapeCodes
    /\ ReferenceSchema.columns \subseteq KnownColumns
    /\ Nobody \notin Callers
    /\ MaxRepair \in Nat
    /\ LastYear \in Nat

(* A reading is a sequence of strings: true as it is written, but a prover *)
(* cannot tell that a literal is in STRING.                                *)
ASSUME ReadingsAreText == \A c \in Clarifications : Interpretations(c) \subseteq Seq(STRING)

VARIABLES
    clock,          \* the injected clock's year, month and day
    midnight,       \* history: today's, by counting days
    starts,         \* history: the starts of the last two days, weeks, ...
    pc,             \* where the request is
    question,
    caller,
    category,       \* the clarification last returned
    answered,       \* history: the clarifications answered in this conversation
    last,           \* history: the last of them, with the reading given
    subset,         \* the retrieved tables
    window,         \* resolved_date
    expected,       \* history: what window may be, by the history of days
    attempt,
    secured,        \* the gate's last verdict
    late            \* a day has passed since the question

dates == <<clock, midnight, starts>>
request == <<pc, question, caller, category, subset, window, expected, attempt,
             secured, late>>
conversation == <<answered, last>>
vars == <<dates, request, conversation>>

-----------------------------------------------------------------------------
(* The days.  A clock that only knows how to go from one day to the next,  *)
(* the reference for the arithmetic of RelativeDates.                      *)

FirstDay == [year |-> 2024, month |-> 1, day |-> 1]        \* a Monday

FirstMidnight == Midnight(2024, 1, 1)

Periods == {"day", "week", "month", "quarter", "year"}

(* How long each period was that ended when 2024 began. *)
LengthBefore == [day |-> 1, week |-> 7, month |-> 31, quarter |-> 92, year |-> 365]

NextDay(c) ==
    CASE c.day < DaysInMonth(c.year, c.month) -> [c EXCEPT !.day = @ + 1]
      [] c.day = DaysInMonth(c.year, c.month) /\ c.month < 12 ->
            [year |-> c.year, month |-> c.month + 1, day |-> 1]
      [] OTHER -> [year |-> c.year + 1, month |-> 1, day |-> 1]

Begins(period, c, m) ==
    CASE period = "day" -> TRUE
      [] period = "week" -> (m - FirstMidnight) % DaysOf(7) = 0
      [] period = "month" -> c.day = 1
      [] period = "quarter" -> c.day = 1 /\ c.month \in {1, 4, 7, 10}
      [] period = "year" -> c.day = 1 /\ c.month = 1

Lasting(period) == Window(starts[period][1], starts[period][2])
SoFar(period) == Window(starts[period][2], midnight + 1)

ByCounting(phrase, q) ==
    CASE phrase = "last_n_days" ->
            Window(midnight + 1 - DaysOf(Number[CHOOSE n \in DayCounts(q) : TRUE]),
                   midnight + 1)
      [] phrase = "last_quarter" -> Lasting("quarter")
      [] phrase = "this_quarter" -> SoFar("quarter")
      [] phrase = "last_month" -> Lasting("month")
      [] phrase = "this_month" -> SoFar("month")
      [] phrase = "last_year" -> Lasting("year")
      [] phrase = "this_year" -> SoFar("year")
      [] phrase = "last_week" -> Lasting("week")
      [] phrase = "yesterday" -> Lasting("day")
      [] phrase = "today" -> Window(midnight, midnight + DaysOf(1))

-----------------------------------------------------------------------------
(* Types and initial state *)

Phases == {"idle", "clarifying", "generating", "answered", "failed"}

NoAnswer == <<NoClarification, <<>>>>

NotSecured == [ok |-> FALSE, issues |-> {}, stmt |-> NoStatement]

TypeOK ==
    /\ pc \in Phases
    /\ clock.month \in 1..12 /\ clock.day \in 1..31
    /\ question \in Seq(STRING)
    /\ caller \in Callers \cup {Nobody}
    /\ category \in Clarifications \cup {NoClarification}
    /\ answered \subseteq Clarifications
    /\ last \in (Clarifications \cup {NoClarification}) \X Seq(STRING)
    /\ subset \subseteq AllTables
    /\ window.start <= window.end
    /\ attempt \in 0..MaxRepair
    /\ secured.issues \subseteq Gate!GateCodes
    /\ late \in BOOLEAN
    /\ pc = "idle" <=> question = <<>>
    /\ pc = "idle" <=> caller = Nobody
    /\ pc = "clarifying" <=> category # NoClarification
    /\ pc \in {"generating", "answered", "failed"} <=> subset # {}
    /\ pc = "answered" <=> secured.ok

Idle ==
    /\ pc' = "idle"
    /\ question' = <<>>
    /\ caller' = Nobody
    /\ category' = NoClarification
    /\ answered' = {}
    /\ last' = NoAnswer
    /\ subset' = {}
    /\ window' = NoWindow
    /\ expected' = {}
    /\ attempt' = 0
    /\ secured' = NotSecured
    /\ late' = FALSE

Init ==
    /\ clock = FirstDay
    /\ midnight = FirstMidnight
    /\ starts = [p \in Periods |->
                    <<FirstMidnight - DaysOf(LengthBefore[p]), FirstMidnight>>]
    /\ pc = "idle"
    /\ question = <<>>
    /\ caller = Nobody
    /\ category = NoClarification
    /\ answered = {}
    /\ last = NoAnswer
    /\ subset = {}
    /\ window = NoWindow
    /\ expected = {}
    /\ attempt = 0
    /\ secured = NotSecured
    /\ late = FALSE

-----------------------------------------------------------------------------
(* Actions *)

Tick ==
    /\ ~late
    /\ clock # [year |-> LastYear, month |-> 1, day |-> 31]
    /\ clock' = NextDay(clock)
    /\ midnight' = midnight + DaysOf(1)
    /\ starts' = [p \in Periods |-> IF Begins(p, clock', midnight')
                                    THEN <<starts[p][2], midnight'>>
                                    ELSE starts[p]]
    /\ late' = (pc # "idle")
    /\ UNCHANGED <<pc, question, caller, category, subset, window, expected, attempt,
                   secured, conversation>>

(* A question names its tables, and may point at any number of others.     *)
Retrieved(q) ==
    LET named == {e[2] : e \in {Entities[i] : i \in {j \in DOMAIN Entities :
                              \E word \in ToSet(q) : Singular(word) = Entities[j][1]}}}
    IN  {named, AllTables} \ {{}}

(* process() up to the await on the provider. *)
Process(q, by) ==
    /\ question' = q
    /\ caller' = by
    /\ attempt' = 0
    /\ secured' = NotSecured
    /\ late' = FALSE
    /\ category' = Detect(q)
    /\ \/ /\ Detect(q) # NoClarification
          /\ pc' = "clarifying"
          /\ subset' = {}
          /\ window' = NoWindow
          /\ expected' = {}
       \/ /\ Detect(q) = NoClarification
          /\ pc' = "generating"
          /\ subset' \in Retrieved(q)
          /\ window' = ResolveRelativeDate(q, clock)
          /\ expected' = {ByCounting(p, q) : p \in Found(q)}

Ask(q, by) ==
    /\ pc = "idle"
    /\ Process(q, by)
    /\ UNCHANGED <<dates, conversation>>

(* The words of a reading replace what was ambiguous or are added to it.   *)
Rephrase(q, reading) ==
    CASE reading = <<"customers">> ->
            [i \in DOMAIN q |-> IF q[i] \in {"user", "users"} THEN "customers" ELSE q[i]]
      [] \/ reading = <<"provide", "a", "definition">>
         \/ reading \in SubSeqs(q) \ {<<"customers">>} -> q
      [] OTHER -> q \o reading

AskAgain(reading) ==
    /\ pc = "clarifying"
    /\ reading \in Interpretations(category)
    /\ Process(Rephrase(question, reading), caller)
    /\ answered' = answered \cup {category}
    /\ last' = <<category, reading>>
    /\ UNCHANGED dates

Drop == pc = "clarifying" /\ Idle /\ UNCHANGED dates

Candidate == Generate(question, subset, window # NoWindow, attempt)

Verdict == Gate!SecureCandidate(Candidate, ReferenceSchema, caller, MaxRows, "none")

(* Faulty: one repair too many. *)
RepairsLeftInclusive == attempt <= MaxRepair

RepairsLeft == attempt < MaxRepair

MayRepair(verdict) == RepairsLeft /\ Gate!IsRepairable(verdict.issues)

(* The provider answers, and the gate judges the answer. *)
Accept ==
    /\ pc = "generating"
    /\ \E verdict \in {Verdict} : verdict.ok /\ secured' = verdict
    /\ pc' = "answered"
    /\ UNCHANGED <<dates, conversation, question, caller, category, subset, window,
                   expected, attempt, late>>

Repair ==
    /\ pc = "generating"
    /\ \E verdict \in {Verdict} : MayRepair(verdict) /\ secured' = verdict
    /\ attempt' = attempt + 1
    /\ UNCHANGED <<dates, conversation, pc, question, caller, category, subset,
                   window, expected, late>>

GiveUp ==
    /\ pc = "generating"
    /\ \E verdict \in {Verdict} :
          ~verdict.ok /\ ~MayRepair(verdict) /\ secured' = verdict
    /\ pc' = "failed"
    /\ UNCHANGED <<dates, conversation, question, caller, category, subset, window,
                   expected, attempt, late>>

Close == pc \in {"answered", "failed"} /\ Idle /\ UNCHANGED dates

Next ==
    \/ Tick
    \/ \E q \in Questions, by \in Callers : Ask(q, by)
    \/ \E reading \in UNION {Interpretations(c) : c \in Clarifications} : AskAgain(reading)
    \/ Drop
    \/ Accept
    \/ Repair
    \/ GiveUp
    \/ Close

Spec == Init /\ [][Next]_vars

-----------------------------------------------------------------------------
(* Properties *)

(* The window handed to the provider is the one a calendar that is only    *)
(* ever turned page by page gives to the phrase, as of the day the         *)
(* question was asked, across the turn of months, quarters, years and leap *)
(* days, and however late the provider answers.                            *)
WindowsFollowTheCalendar ==
    /\ expected # {} => window \in expected
    /\ expected = {} => window = NoWindow

(* Two of the readings that the clarifications offer tell the detector     *)
(* nothing: a definition is no part of a question, and a question about    *)
(* users is one about users after their reading was chosen.                *)
TellNothing == {<<"provide", "a", "definition">>, <<"application", "users">>}

(* In a conversation that answers every clarification with a reading it    *)
(* offered, none is raised a second time, whatever else is asked back in   *)
(* between, with one exception: an answer that tells nothing raises, and   *)
(* always, the clarification it answers, and that one only.  So no other   *)
(* answer fails, and no circle leads through more than one clarification.  *)
AnswersSettle ==
    /\ category \in answered => last[2] \in TellNothing
    /\ last[2] \in TellNothing => category = last[1]

(* Every table that belongs to tenants, as the schema tells, is confined   *)
(* to the caller's tenant: the list in the semantic layer, kept apart from *)
(* the schema, forgets none that a question reaches.                       *)
StatementsAreScoped ==
    pc = "answered" =>
        \A t \in secured.stmt.tables :
            t = "organizations" \/ "organization_id" \in ColumnNames[t]
                => t \in secured.stmt.scoped

(* The tables of a statement that the rules write are joined into one, so  *)
(* no rule multiplies the rows of tables it does not relate.               *)
JoinsConnect ==
    pc = "generating" /\ question \notin DOMAIN Scripts =>
        LET drawn == Candidate
        IN  \A part \in (SUBSET drawn.tables) \ {{}, drawn.tables} :
                \E j \in drawn.joins : (j[1][1] \in part) # (j[2][1] \in part)

(* The rules show a sensitive column only to who asked for the MRR: not in *)
(* a listing, a count or a statement the question did not match.           *)
SensitiveOnRequest ==
    pc = "answered" /\ question \notin DOMAIN Scripts =>
        \A col \in secured.stmt.columns :
            IsSensitive(col) =>
                Mentions(question, "mrr") \/ <<"recurring", "revenue">> \in SubSeqs(question)

Clears(c) == Gate!SecureCandidate(c, ReferenceSchema, caller, MaxRows, "none").ok

(* A script is played from its first candidate on, one further for each    *)
(* repair: the first candidate that the gate clears answers the question,  *)
(* and a question fails only if none of those played clears.               *)
FirstClearedAnswers ==
    question \in DOMAIN Scripts =>
        LET script == Scripts[question]
        IN  /\ pc = "answered" => /\ attempt + 1 \in DOMAIN script
                                  /\ Clears(script[attempt + 1])
                                  /\ \A i \in 1..attempt : ~Clears(script[i])
            /\ pc = "failed" =>
                  \A i \in DOMAIN script : i <= attempt + 1 => ~Clears(script[i])
=============================================================================
