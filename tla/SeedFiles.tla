------------------------------ MODULE SeedFiles ------------------------------
(***************************************************************************)
(* Start-up: scripts/generate_data.py writes the seed files, in one run or *)
(* in several when it is started again, and may be killed anywhere; the    *)
(* services wait for the files they need to exist (wait_for_files in       *)
(* services/common/util.py), read them, and serve.  Nothing but the files  *)
(* connects the two: that compose starts the services after the generator  *)
(* is not assumed.                                                         *)
(*                                                                         *)
(* With the same --seed all runs write the same data, but each draws keys  *)
(* of its own, and the PIN blocks at rest in cards.json are enciphered     *)
(* under them.  Services keep what they have read in memory.               *)
(***************************************************************************)
EXTENDS PinZones, FiniteSets

CONSTANTS Generators,                   \* runs of the generator, --if-missing
          Merchants, Gateways, Issuers, \* the processes that serve
          Mixed,                        \* keys or cards of two runs in one file
          Seeded,                       \* data that is the same in every run
          Unread,
          Requests, Months              \* what is asked, and when

Services == Merchants \cup Gateways \cup Issuers

Versions == Generators \cup {Mixed, Seeded}

ASSUME SeedAssumption ==
    /\ Generators # {}
    /\ Merchants \cap Issuers = {}
    /\ Mixed \notin Generators /\ Seeded \notin Generators
    /\ Unread \notin Versions
    /\ \A r \in Requests : r.expiry \in (1 .. 12) \X (0 .. 99) /\ r.pin \in Entry /\ r.cvv \in Entry
    /\ \A now \in Months : now.year \in Nat /\ now.month \in 1 .. 12

\* merchants, terminals, cards, authorizations, customer_pins, customer_cvvs
\* and keys.json.  The reference data that follows is read by no service.
Files == 1 .. 7
CARDS == 3
MARKER == 4
KEYS == 7

VARIABLES
    gen,        \* where each run of the generator is
    next,       \* the file it writes next, none of them once it is over
    exists,     \* the files that exist
    content,    \* per file, the runs whose bytes are in it
    overlap,    \* two runs have been writing at the same time
    srv,        \* where each service is: one that is down waits to be started
    read,       \* the files it has read so far
    loaded      \* whose cards and keys it holds

fileVars == <<gen, next, exists, content, overlap>>
serviceVars == <<srv, read, loaded>>
vars == <<fileVars, serviceVars>>

TypeOK ==
    /\ gen \in [Generators -> {"new", "between", "writing", "over"}]
    /\ next \in [Generators -> 1 .. 8]
    /\ exists \subseteq Files
    /\ content \in [Files -> SUBSET Versions]
    /\ overlap \in BOOLEAN
    /\ srv \in [Services -> {"waiting", "loading", "serving"}]
    /\ read \in [Services -> SUBSET Files]
    /\ loaded \in [Services -> [{CARDS, KEYS} -> Versions \cup {Unread}]]

Init ==
    /\ gen = [g \in Generators |-> "new"]
    /\ next = [g \in Generators |-> 1]
    /\ exists = {}
    /\ content = [f \in Files |-> {}]
    /\ overlap = FALSE
    /\ srv = [s \in Services |-> "waiting"]
    /\ read = [s \in Services |-> {}]
    /\ loaded = [s \in Services |-> [f \in {CARDS, KEYS} |-> Unread]]

-----------------------------------------------------------------------------
(* generate_data.py: main *)

Running(g) == gen[g] \in {"between", "writing"}

\* Mutant: the keys are written first.
NthKeysFirst(n) == IF n = 1 THEN KEYS ELSE n - 1

\* Mutant: the first file is passed over.
NthOffByOne(n) == n + 1

\* The n-th file main writes.
Nth(n) == n

\* Mutant: --if-missing has no effect.
MissingAlways == TRUE

Missing == MARKER \notin exists

Over(g) ==
    /\ gen' = [gen EXCEPT ![g] = "over"]
    /\ next' = [next EXCEPT ![g] = 8]

\* --if-missing: look for the marker, then draw the data and the keys.
Start(g) ==
    /\ gen[g] = "new"
    /\ IF Missing THEN gen' = [gen EXCEPT ![g] = "between"] /\ UNCHANGED next ELSE Over(g)
    /\ overlap' = (overlap \/ (Missing /\ \E h \in Generators : Running(h)))
    /\ UNCHANGED <<exists, content, serviceVars>>

BeingWritten(f) == \E g \in Generators : gen[g] = "writing" /\ Nth(next[g]) = f

\* write_json: open(path, "w") creates the file or cuts it to nothing, which
\* spoils what another run still writes to it ...
Open(g) ==
    /\ gen[g] = "between"
    /\ gen' = [gen EXCEPT ![g] = "writing"]
    /\ exists' = exists \cup {Nth(next[g])}
    /\ content' = [content EXCEPT ![Nth(next[g])] =
                      IF BeingWritten(Nth(next[g])) THEN {Mixed} ELSE {}]
    /\ UNCHANGED <<next, overlap, serviceVars>>

\* What a run writes into a file that tells it from other runs.
Mark(g, f) == IF f \in {CARDS, KEYS} THEN g ELSE Seeded

\* ... and it is complete when it is closed.
Close(g) ==
    LET f == Nth(next[g])
    IN  /\ gen[g] = "writing"
        /\ content' = [content EXCEPT ![f] = @ \cup {Mark(g, f)}]
        /\ IF next[g] = 7
           THEN Over(g)
           ELSE /\ gen' = [gen EXCEPT ![g] = "between"]
                /\ next' = [next EXCEPT ![g] = @ + 1]
        /\ UNCHANGED <<exists, overlap, serviceVars>>

\* The container is stopped, or the disk is full.
Crash(g) ==
    /\ Running(g)
    /\ Over(g)
    /\ UNCHANGED <<exists, content, overlap, serviceVars>>

-----------------------------------------------------------------------------
(* The services: wait_for_files, load_json *)

\* What a service reads.  A merchant simulator waits for the terminals too.
Reads(s) ==
    IF s \in Merchants THEN {1, MARKER, 5, 6, KEYS}
    ELSE IF s \in Issuers THEN {CARDS, KEYS}
    ELSE {KEYS}

Awaited(s) == IF s \in Merchants THEN Reads(s) \cup {2} ELSE Reads(s)

Goto(s, p) == srv' = [srv EXCEPT ![s] = p]

\* wait_for_files finds nothing missing.  Until then the service polls, or has
\* given up and is started again, all of which is the same to the files.
Found(s) ==
    /\ srv[s] = "waiting"
    /\ Awaited(s) \subseteq exists
    /\ Goto(s, "loading")
    /\ UNCHANGED <<fileVars, read, loaded>>

Whole(f) == Cardinality(content[f]) = 1 /\ ~BeingWritten(f)

\* What a file that parses may hold.
Parsed(f) ==
    IF Whole(f) \/ content[f] = {} THEN content[f] ELSE content[f] \cup {Mixed}

\* Each service reads its files in the order in which they are written.
NextRead(s, f) == f \in Reads(s) \ read[s] /\ \A e \in Reads(s) \ read[s] : f <= e

Load(s, f) ==
    /\ srv[s] = "loading" /\ NextRead(s, f)
    /\ \E v \in Parsed(f) :
          loaded' = IF f \in {CARDS, KEYS} THEN [loaded EXCEPT ![s][f] = v] ELSE loaded
    /\ read' = [read EXCEPT ![s] = @ \cup {f}]
    /\ Goto(s, IF f = KEYS THEN "serving" ELSE "loading")
    /\ UNCHANGED fileVars

\* A process that ends takes with it what it has read.
Ends(s) ==
    /\ Goto(s, "waiting")
    /\ read' = [read EXCEPT ![s] = {}]
    /\ loaded' = [loaded EXCEPT ![s] = [f \in {CARDS, KEYS} |-> Unread]]
    /\ UNCHANGED fileVars

\* json.load raises on half a file, and nothing catches that.
LoadFails(s, f) ==
    /\ srv[s] = "loading" /\ NextRead(s, f)
    /\ ~Whole(f)
    /\ Ends(s)

\* A service is stopped and started again (compose restart).
Restart(s) ==
    /\ srv[s] = "serving"
    /\ Ends(s)

-----------------------------------------------------------------------------

GeneratorStep(g) == Start(g) \/ Open(g) \/ Close(g) \/ Crash(g)

ServiceStep(s) ==
    \/ Found(s)
    \/ \E f \in Files : Load(s, f) \/ LoadFails(s, f)

Next ==
    \/ \E g \in Generators : GeneratorStep(g)
    \/ \E s \in Services : ServiceStep(s) \/ Restart(s)

Spec == Init /\ [][Next]_vars
-----------------------------------------------------------------------------
(* Properties *)

Serving(S) == {s \in S : srv[s] = "serving"}

\* generate_data.py:359-366, main and wait_for_files: whatever is killed and
\* started again in whatever order, all keys and cards in use come from one
\* run of the generator, unless two runs wrote at the same time.  It takes
\* the marker, and that the keys are written last.
OneGeneration ==
    ~overlap => \E g \in Generators : \A s \in Serving(Services) :
                    \A f \in Reads(s) \cap {CARDS, KEYS} : loaded[s][f] = g

\* The same help text: no run replaces files "out from under services that
\* already read" them, again unless two runs overlap.
FilesStayPut ==
    [][~overlap' /\ Serving(Services) # {} => content' = content]_vars

\* What a request is answered while these three serve.
AnswersOf(r, now, m, g, i) ==
    Answers(r, now, loaded[m][KEYS], loaded[g][KEYS], loaded[i][CARDS], loaded[i][KEYS])

\* decide_response: whichever files each party has read, even those of two
\* runs, a wrong PIN or CVV, a missing one and a card past its month are
\* never left to the generic choice.
WrongIsNeverApproved ==
    \A m \in Serving(Merchants), g \in Serving(Gateways), i \in Serving(Issuers) :
        \A r \in Requests, now \in Months :
            "generic" \in AnswersOf(r, now, m, g, i) => InOrder(r, now)

\* crypto.py:6-12, the whole way: a cardholder who enters the right digits on
\* a card in its month passes every check, from the terminal's zone through
\* the transit zone to the PIN at rest, unless two runs overlap.
RightIsAccepted ==
    ~overlap =>
        \A m \in Serving(Merchants), g \in Serving(Gateways), i \in Serving(Issuers) :
            \A r \in Requests, now \in Months :
                InOrder(r, now) => AnswersOf(r, now, m, g, i) = {"generic"}
=============================================================================
