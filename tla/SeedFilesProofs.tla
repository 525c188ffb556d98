--------------------------- MODULE SeedFilesProofs ---------------------------
(***************************************************************************)
(* Proofs about SeedFiles and PinZones, for any number of runs of the      *)
(* generator, any services, and every expiry date and month.               *)
(*                                                                         *)
(* As long as no two runs write at the same time, the marker splits every  *)
(* behaviour in two: before it there are no keys, so no service has read   *)
(* anything; from then on nobody starts to write again, so cards and keys  *)
(* are those of the one run that created it.                               *)
(***************************************************************************)
EXTENDS SeedFiles, FiniteSetTheorems, TLAPS

\* A run that writes has a file to write, and begins with the first.
NextInRange ==
    \A g \in Generators :
        /\ Running(g) => next[g] \in 1 .. 7
        /\ gen[g] = "new" => next[g] = 1

OneRun == ~overlap => \A g, h \in Generators : Running(g) /\ Running(h) => g = h

\* What a run writes is not there before it is done.
StartsEmpty ==
    ~overlap => \A g \in Generators : gen[g] = "writing" => content[Nth(next[g])] = {}

\* Who serves has read its files, and who has read knows whose they were.
ReadIsLoaded ==
    \A s \in Services :
        /\ srv[s] = "serving" => Reads(s) \subseteq read[s]
        /\ \A f \in {CARDS, KEYS} : f \in read[s] => loaded[s][f] # Unread

BeforeMarker ==
    ~overlap /\ MARKER \notin exists =>
        /\ KEYS \notin exists /\ content[KEYS] = {}
        /\ \A s \in Services : srv[s] = "waiting" /\ \A f \in {CARDS, KEYS} : loaded[s][f] = Unread
        /\ \A g \in Generators : Running(g) =>
              /\ next[g] <= MARKER
              /\ next[g] = MARKER => gen[g] = "between" /\ content[CARDS] = {g}

\* g created the marker.
Author(g) ==
    /\ content[CARDS] = {g}
    /\ content[KEYS] \subseteq {g}
    /\ \A h \in Generators : Running(h) =>
          h = g /\ next[h] >= MARKER /\ (next[h] = MARKER => gen[h] = "writing")
    /\ \A s \in Services, f \in {CARDS, KEYS} : loaded[s][f] \in {Unread, g}

AfterMarker == ~overlap /\ MARKER \in exists => \E g \in Generators : Author(g)

\* The keys come last.
KeysPending ==
    ~overlap => \A g \in Generators : Running(g) =>
                    content[KEYS] = {} /\ \A s \in Services : loaded[s][KEYS] = Unread

IInv ==
    /\ TypeOK /\ NextInRange /\ OneRun /\ StartsEmpty /\ ReadIsLoaded
    /\ BeforeMarker /\ AfterMarker /\ KeysPending
-----------------------------------------------------------------------------
(* Types *)

\* What a file may yield is one of Versions.
LEMMA ParsedType ==
    ASSUME TypeOK, NEW f \in Files, NEW v \in Parsed(f)
    PROVE  v \in Versions
  BY DEF TypeOK, Parsed, Versions

\* Nobody reads anything but seed files, and everybody the keys.
LEMMA ReadsType ==
    ASSUME NEW s
    PROVE  Reads(s) \subseteq Files /\ KEYS \in Reads(s) /\ KEYS \in Awaited(s)
  BY DEF Reads, Awaited, Files, CARDS, MARKER, KEYS

\* The initial state has the inductive invariant.
LEMMA InitIInv == Init => IInv
<1> SUFFICES ASSUME Init PROVE IInv
  OBVIOUS
<1>1. TypeOK
  <2>1. loaded \in [Services -> [{CARDS, KEYS} -> Versions \cup {Unread}]]
    BY DEF Init
  <2>2. content \in [Files -> SUBSET Versions] /\ exists \subseteq Files
    BY DEF Init
  <2>3. gen \in [Generators -> {"new", "between", "writing", "over"}] /\ next \in [Generators -> 1 .. 8]
    BY DEF Init
  <2>4. srv \in [Services -> {"waiting", "loading", "serving"}] /\ read \in [Services -> SUBSET Files]
    BY DEF Init
  <2> QED
    BY <2>1, <2>2, <2>3, <2>4 DEF Init, TypeOK
<1>2. NextInRange /\ OneRun /\ StartsEmpty /\ KeysPending
  BY DEF Init, NextInRange, OneRun, StartsEmpty, KeysPending, Running
<1>3. ReadIsLoaded
  BY DEF Init, ReadIsLoaded, Services
<1>4. BeforeMarker
  BY DEF Init, BeforeMarker, Running, CARDS, KEYS, Files
<1>5. AfterMarker
  BY DEF Init, AfterMarker
<1> QED
  BY <1>1, <1>2, <1>3, <1>4, <1>5 DEF IInv

\* Every step keeps the types and the range of next.
LEMMA TypeStep ==
    ASSUME TypeOK, NextInRange, [Next]_vars
    PROVE  TypeOK' /\ NextInRange'
<1> USE DEF TypeOK, NextInRange, Running
<1>0. ASSUME NEW g \in Generators, Over(g), UNCHANGED <<exists, overlap, serviceVars>>,
             content' \in [Files -> SUBSET Versions]
      PROVE  TypeOK' /\ NextInRange'
  <2>1. /\ gen' \in [Generators -> {"new", "between", "writing", "over"}]
        /\ next' \in [Generators -> 1 .. 8]
    BY <1>0 DEF Over
  <2>2. NextInRange'
    BY <1>0 DEF Over
  <2> QED
    BY <1>0, <2>1, <2>2 DEF serviceVars
<1>1. ASSUME NEW g \in Generators, Start(g) PROVE TypeOK' /\ NextInRange'
  <2>1. CASE Missing
    <3>1. /\ gen' \in [Generators -> {"new", "between", "writing", "over"}]
          /\ UNCHANGED <<next, exists, content, serviceVars>>
      BY <1>1, <2>1 DEF Start
    <3>2. overlap' \in BOOLEAN
      BY <1>1 DEF Start
    <3>3. NextInRange'
      BY <1>1, <2>1 DEF Start
    <3> QED
      BY <3>1, <3>2, <3>3 DEF serviceVars
  <2>2. CASE ~Missing
    BY <1>0, <1>1, <2>2 DEF Start, serviceVars
  <2> QED
    BY <2>1, <2>2
<1>2. ASSUME NEW g \in Generators, Open(g) PROVE TypeOK' /\ NextInRange'
  <2>1. Nth(next[g]) \in Files
    BY <1>2 DEF Open, Nth, Files
  <2>2. /\ gen' \in [Generators -> {"new", "between", "writing", "over"}]
        /\ exists' \subseteq Files
        /\ content' \in [Files -> SUBSET Versions]
    BY <1>2, <2>1 DEF Open, Versions
  <2>3. NextInRange'
    BY <1>2 DEF Open
  <2> QED
    BY <1>2, <2>2, <2>3 DEF Open, serviceVars
<1>3. ASSUME NEW g \in Generators, Close(g) PROVE TypeOK' /\ NextInRange'
  <2>1. Nth(next[g]) \in Files
    BY <1>3 DEF Close, Nth, Files
  <2>2. Mark(g, Nth(next[g])) \in Versions
    BY DEF Mark, Versions
  <2>3. content' \in [Files -> SUBSET Versions]
    BY <1>3, <2>1, <2>2 DEF Close
  <2>4. CASE next[g] = 7
    BY <1>0, <1>3, <2>3, <2>4 DEF Close
  <2>5. CASE next[g] # 7
    <3>1. /\ gen' \in [Generators -> {"new", "between", "writing", "over"}]
          /\ next' \in [Generators -> 1 .. 8]
      BY <1>3, <2>5 DEF Close
    <3>2. NextInRange'
      BY <1>3, <2>5 DEF Close
    <3> QED
      BY <1>3, <2>3, <2>5, <3>1, <3>2 DEF Close, serviceVars
  <2> QED
    BY <2>4, <2>5
<1>4. ASSUME NEW g \in Generators, Crash(g) PROVE TypeOK' /\ NextInRange'
  BY <1>0, <1>4 DEF Crash
<1>5. ASSUME NEW s \in Services, Found(s) PROVE TypeOK' /\ NextInRange'
  BY <1>5 DEF Found, Goto, fileVars
<1>6. ASSUME NEW s \in Services, NEW f \in Files, Load(s, f) PROVE TypeOK' /\ NextInRange'
  <2>1. PICK v \in Parsed(f) :
           loaded' = IF f \in {CARDS, KEYS} THEN [loaded EXCEPT ![s][f] = v] ELSE loaded
    BY <1>6 DEF Load
  <2>2. v \in Versions
    BY ParsedType
  <2> QED
    BY <1>6, <2>1, <2>2 DEF Load, Goto, fileVars
<1>7. ASSUME NEW s \in Services, Ends(s) PROVE TypeOK' /\ NextInRange'
  BY <1>7 DEF Ends, Goto, fileVars, CARDS, KEYS
<1>8. CASE UNCHANGED vars
  BY <1>8 DEF vars, fileVars, serviceVars
<1> QED
  BY <1>1, <1>2, <1>3, <1>4, <1>5, <1>6, <1>7, <1>8
  DEF Next, GeneratorStep, ServiceStep, LoadFails, Restart

-----------------------------------------------------------------------------
(* The steps of the generator *)

\* Everything but the types.
Order == OneRun /\ StartsEmpty /\ ReadIsLoaded /\ BeforeMarker /\ AfterMarker /\ KeysPending

\* What services hold depends on nothing a run of the generator does.
LEMMA GeneratorReads ==
    ASSUME ReadIsLoaded, UNCHANGED serviceVars
    PROVE  ReadIsLoaded'
  BY DEF ReadIsLoaded, serviceVars

\* A run that starts either finds the marker and is over, or is the first to
\* write, or overlaps: each way the order of the writes is kept.
LEMMA StartOrder ==
    ASSUME IInv, NEW g \in Generators, Start(g)
    PROVE  Order'
<1> USE DEF IInv, TypeOK
<1>1. ReadIsLoaded'
  BY GeneratorReads DEF Start
<1>2. CASE ~overlap' /\ Missing
  <2>1. /\ gen' = [gen EXCEPT ![g] = "between"]
        /\ UNCHANGED <<next, exists, content, serviceVars>>
        /\ ~overlap /\ MARKER \notin exists
        /\ \A h \in Generators : ~Running(h)
    BY <1>2 DEF Start, Missing
  <2>2. next[g] = 1
    BY DEF NextInRange, Start
  <2>3. \A h \in Generators : Running(h)' => h = g
    BY <2>1 DEF Running
  <2>4. OneRun'
    BY <2>3 DEF OneRun
  <2>5. StartsEmpty'
    BY <2>1 DEF StartsEmpty, Nth
  <2>6. BeforeMarker'
    BY <2>1, <2>2, <2>3 DEF BeforeMarker, serviceVars, MARKER
  <2>7. AfterMarker'
    BY <2>1 DEF AfterMarker
  <2>8. KeysPending'
    BY <2>1 DEF BeforeMarker, KeysPending, serviceVars, KEYS, CARDS
  <2> QED
    BY <1>1, <2>4, <2>5, <2>6, <2>7, <2>8 DEF Order
<1>3. CASE ~overlap' /\ ~Missing
  <2>1. /\ gen' = [gen EXCEPT ![g] = "over"]
        /\ next' = [next EXCEPT ![g] = 8]
        /\ UNCHANGED <<exists, content, serviceVars>>
        /\ ~overlap /\ MARKER \in exists
    BY <1>3 DEF Start, Missing, Over
  <2>2. \A h \in Generators : Running(h)' => Running(h) /\ h # g /\ next'[h] = next[h] /\ gen'[h] = gen[h]
    BY <2>1 DEF Running
  <2>3. OneRun' /\ StartsEmpty'
    BY <2>1, <2>2 DEF OneRun, StartsEmpty, Running, Nth
  <2>4. BeforeMarker'
    BY <2>1 DEF BeforeMarker
  <2>5. AfterMarker'
    <3>1. PICK a \in Generators : Author(a)
      BY <2>1 DEF AfterMarker
    <3>2. Author(a)'
      BY <2>1, <2>2, <3>1 DEF Author, serviceVars
    <3> QED
      BY <3>2 DEF AfterMarker
  <2>6. KeysPending'
    BY <2>1, <2>2 DEF KeysPending, serviceVars
  <2> QED
    BY <1>1, <2>3, <2>4, <2>5, <2>6 DEF Order
<1>4. CASE overlap'
  BY <1>1, <1>4 DEF Order, OneRun, StartsEmpty, BeforeMarker, AfterMarker, KeysPending
<1> QED
  BY <1>2, <1>3, <1>4

\* A run that is killed leaves what it has written, and writes no more.
LEMMA CrashOrder ==
    ASSUME IInv, NEW g \in Generators, Crash(g)
    PROVE  Order'
<1> USE DEF IInv, TypeOK
<1>1. ReadIsLoaded'
  BY GeneratorReads DEF Crash
<1>2. /\ gen' = [gen EXCEPT ![g] = "over"]
      /\ next' = [next EXCEPT ![g] = 8]
      /\ UNCHANGED <<exists, content, overlap, serviceVars>>
  BY DEF Crash, Over
<1>3. \A h \in Generators : Running(h)' => Running(h) /\ h # g /\ next'[h] = next[h] /\ gen'[h] = gen[h]
  BY <1>2 DEF Running
<1>4. OneRun' /\ StartsEmpty'
  BY <1>2, <1>3 DEF OneRun, StartsEmpty, Running, Nth
<1>5. BeforeMarker'
  BY <1>2, <1>3 DEF BeforeMarker, serviceVars
<1>6. AfterMarker'
  <2>1. SUFFICES ASSUME ~overlap, MARKER \in exists
                 PROVE  \E a \in Generators : Author(a)'
    BY <1>2 DEF AfterMarker
  <2>2. PICK a \in Generators : Author(a)
    BY <2>1 DEF AfterMarker
  <2>3. Author(a)'
    BY <1>2, <1>3, <2>2 DEF Author, serviceVars
  <2> QED
    BY <2>3
<1>7. KeysPending'
  BY <1>2, <1>3 DEF KeysPending, serviceVars
<1> QED
  BY <1>1, <1>4, <1>5, <1>6, <1>7 DEF Order

\* Opening a file cuts nothing that a service could have read.
LEMMA OpenOrder ==
    ASSUME IInv, NEW g \in Generators, Open(g)
    PROVE  Order'
<1> USE DEF IInv, TypeOK
<1> DEFINE n == next[g]
<1>1. ReadIsLoaded'
  BY GeneratorReads DEF Open
<1>2. /\ gen[g] = "between" /\ gen' = [gen EXCEPT ![g] = "writing"]
      /\ n \in 1 .. 7
      /\ exists' = exists \cup {n}
      /\ UNCHANGED <<next, overlap, serviceVars>>
      /\ \A f \in Files : f # n => content'[f] = content[f]
  BY DEF Open, Nth, NextInRange, Running
<1>3. CASE overlap
  BY <1>1, <1>2, <1>3 DEF Order, OneRun, StartsEmpty, BeforeMarker, AfterMarker, KeysPending
<1>4. CASE ~overlap
  <2>1. \A h \in Generators : Running(h) => h = g
    BY <1>2, <1>4 DEF OneRun, Running
  <2>2. \A h \in Generators : Running(h)' => h = g
    BY <1>2, <2>1 DEF Running
  <2>3. content'[n] = {}
    BY <1>2, <2>1 DEF Open, BeingWritten, Running, Nth, Files
  <2>4. OneRun' /\ StartsEmpty'
    BY <1>2, <2>2, <2>3 DEF OneRun, StartsEmpty, Running, Nth
  <2>5. CASE MARKER \notin exists /\ n # MARKER
    <3>1. n < MARKER /\ ~(n = KEYS) /\ MARKER \notin exists' /\ KEYS \notin exists'
      BY <1>2, <1>4, <2>5 DEF BeforeMarker, Running, MARKER, KEYS
    <3>2. content'[KEYS] = content[KEYS]
      BY <1>2, <3>1 DEF Files, KEYS
    <3>3. BeforeMarker'
      BY <1>2, <1>4, <2>2, <2>5, <3>1, <3>2 DEF BeforeMarker, serviceVars, MARKER, KEYS
    <3>4. AfterMarker'
      BY <3>1 DEF AfterMarker
    <3>5. KeysPending'
      BY <1>2, <1>4, <2>5, <3>2 DEF BeforeMarker, KeysPending, serviceVars, KEYS, CARDS
    <3> QED
      BY <1>1, <2>4, <3>3, <3>4, <3>5 DEF Order
  <2>6. CASE MARKER \notin exists /\ n = MARKER
    <3>1. MARKER \in exists'
      BY <1>2, <2>6
    <3>2. content'[CARDS] = {g} /\ content'[KEYS] = {}
      BY <1>2, <1>4, <2>6 DEF BeforeMarker, Running, Files, CARDS, MARKER, KEYS
    <3>3. \A s \in Services, f \in {CARDS, KEYS} : loaded'[s][f] = Unread
      BY <1>2, <1>4, <2>6 DEF BeforeMarker, serviceVars
    <3>4. Author(g)'
      BY <1>2, <2>2, <2>6, <3>2, <3>3 DEF Author, MARKER
    <3>5. AfterMarker' /\ BeforeMarker'
      BY <3>1, <3>4 DEF AfterMarker, BeforeMarker
    <3>6. KeysPending'
      BY <3>2, <3>3 DEF KeysPending
    <3> QED
      BY <1>1, <2>4, <3>5, <3>6 DEF Order
  <2>7. CASE MARKER \in exists
    <3>1. PICK a \in Generators : Author(a)
      BY <1>4, <2>7 DEF AfterMarker
    <3>2. a = g /\ n > MARKER
      BY <1>2, <3>1 DEF Author, Running, MARKER
    <3>3. MARKER \in exists' /\ content'[CARDS] = {g} /\ content'[KEYS] \subseteq {g}
      BY <1>2, <2>3, <2>7, <3>1, <3>2 DEF Author, Files, CARDS, MARKER, KEYS
    <3>4. Author(g)'
      BY <1>2, <2>2, <3>1, <3>2, <3>3 DEF Author, serviceVars, MARKER
    <3>5. AfterMarker' /\ BeforeMarker'
      BY <3>3, <3>4 DEF AfterMarker, BeforeMarker
    <3>6. content[KEYS] = {} /\ \A s \in Services : loaded[s][KEYS] = Unread
      BY <1>2, <1>4 DEF KeysPending, Running
    <3>7. content'[KEYS] = {}
      BY <1>2, <2>3, <3>6 DEF Files, KEYS
    <3>8. KeysPending'
      BY <1>2, <3>6, <3>7 DEF KeysPending, serviceVars
    <3> QED
      BY <1>1, <2>4, <3>5, <3>8 DEF Order
  <2> QED
    BY <2>5, <2>6, <2>7
<1> QED
  BY <1>3, <1>4

\* A file that is closed is its author's, and the next one is its turn.
LEMMA CloseOrder ==
    ASSUME IInv, NEW g \in Generators, Close(g)
    PROVE  Order'
<1> USE DEF IInv, TypeOK
<1> DEFINE n == next[g]
<1>1. ReadIsLoaded'
  BY GeneratorReads DEF Close
<1>2. /\ gen[g] = "writing" /\ gen'[g] \in {"between", "over"}
      /\ n \in 1 .. 7
      /\ gen'[g] = "between" => n < 7 /\ next'[g] = n + 1
      /\ \A h \in Generators : h # g => gen'[h] = gen[h] /\ next'[h] = next[h]
      /\ UNCHANGED <<exists, overlap, serviceVars>>
      /\ content' = [content EXCEPT ![n] = @ \cup {Mark(g, n)}]
  BY DEF Close, Over, Nth, NextInRange, Running
<1>3. CASE overlap
  BY <1>1, <1>2, <1>3 DEF Order, OneRun, StartsEmpty, BeforeMarker, AfterMarker, KeysPending
<1>4. CASE ~overlap
  <2>1. \A h \in Generators : Running(h) => h = g
    BY <1>2, <1>4 DEF OneRun, Running
  <2>2. \A h \in Generators : Running(h)' => h = g /\ gen'[h] = "between"
    BY <1>2, <2>1 DEF Running
  <2>3. content[n] = {}
    BY <1>2, <1>4 DEF StartsEmpty, Nth
  <2>4. \A f \in Files : content'[f] = IF f = n THEN {Mark(g, n)} ELSE content[f]
    BY <1>2, <2>3 DEF Files
  <2>5. OneRun' /\ StartsEmpty'
    BY <1>2, <2>2 DEF OneRun, StartsEmpty, Running
  <2>6. CASE MARKER \notin exists
    <3>1. n < MARKER /\ MARKER \notin exists' /\ KEYS \notin exists'
      BY <1>2, <1>4, <2>6 DEF BeforeMarker, Running, MARKER
    <3>2. content'[KEYS] = {}
      BY <1>4, <2>4, <2>6, <3>1 DEF BeforeMarker, Files, MARKER, KEYS
    <3>3. n = CARDS => content'[CARDS] = {g}
      BY <2>4 DEF Mark, Files, CARDS
    <3>4. BeforeMarker'
      <4>1. \A h \in Generators : Running(h)' =>
               h = g /\ gen'[h] = "between" /\ next'[h] = n + 1 /\ n + 1 <= MARKER
        BY <1>2, <2>2, <3>1 DEF MARKER
      <4>2. n + 1 = MARKER => content'[CARDS] = {g}
        BY <1>2, <3>3 DEF MARKER, CARDS
      <4> QED
        BY <1>2, <1>4, <2>6, <3>1, <3>2, <4>1, <4>2 DEF BeforeMarker, serviceVars
    <3>5. AfterMarker'
      BY <3>1 DEF AfterMarker
    <3>6. KeysPending'
      BY <1>2, <1>4, <2>6, <3>2 DEF BeforeMarker, KeysPending, serviceVars
    <3> QED
      BY <1>1, <2>5, <3>4, <3>5, <3>6 DEF Order
  <2>7. CASE MARKER \in exists
    <3>1. PICK a \in Generators : Author(a)
      BY <1>4, <2>7 DEF AfterMarker
    <3>2. a = g /\ n >= MARKER
      BY <1>2, <3>1 DEF Author, Running, MARKER
    <3>3. content'[CARDS] = {g} /\ content'[KEYS] \subseteq {g}
      BY <1>2, <2>4, <3>1, <3>2 DEF Author, Mark, Files, CARDS, MARKER, KEYS
    <3>4. Author(g)'
      <4>1. \A h \in Generators : Running(h)' => h = g /\ next'[h] = n + 1 /\ n + 1 > MARKER
        BY <1>2, <2>2, <3>2 DEF MARKER
      <4>2. \A s \in Services, f \in {CARDS, KEYS} : loaded'[s][f] \in {Unread, g}
        BY <1>2, <3>1, <3>2 DEF Author, serviceVars
      <4> QED
        BY <1>2, <3>3, <4>1, <4>2 DEF Author, MARKER
    <3>5. AfterMarker' /\ BeforeMarker'
      BY <1>2, <2>7, <3>4 DEF AfterMarker, BeforeMarker
    <3>6. content[KEYS] = {} /\ \A s \in Services : loaded[s][KEYS] = Unread
      BY <1>2, <1>4 DEF KeysPending, Running
    <3>7. n # KEYS => content'[KEYS] = {}
      BY <2>4, <3>6 DEF Files, KEYS
    <3>8. KeysPending'
      BY <1>2, <2>2, <3>6, <3>7 DEF KeysPending, serviceVars, KEYS
    <3> QED
      BY <1>1, <2>5, <3>5, <3>8 DEF Order
  <2> QED
    BY <2>6, <2>7
<1> QED
  BY <1>3, <1>4

-----------------------------------------------------------------------------
(* The steps of the services *)

\* A service finds its files only where the keys exist.
LEMMA FoundOrder ==
    ASSUME IInv, NEW s \in Services, Found(s)
    PROVE  Order'
<1> USE DEF IInv, TypeOK
<1>1. /\ srv' = [srv EXCEPT ![s] = "loading"]
      /\ UNCHANGED <<fileVars, read, loaded>>
      /\ KEYS \in exists
  BY ReadsType DEF Found, Goto
<1>2. OneRun' /\ StartsEmpty' /\ KeysPending'
  BY <1>1 DEF fileVars, OneRun, StartsEmpty, KeysPending, Running
<1>3. ReadIsLoaded'
  BY <1>1 DEF ReadIsLoaded
<1>4. BeforeMarker'
  BY <1>1 DEF fileVars, BeforeMarker
<1>5. AfterMarker'
  BY <1>1 DEF fileVars, AfterMarker, Author, Running
<1> QED
  BY <1>2, <1>3, <1>4, <1>5 DEF Order

\* A service that ends holds nothing.
LEMMA EndsOrder ==
    ASSUME IInv, NEW s \in Services, Ends(s)
    PROVE  Order'
<1> USE DEF IInv, TypeOK
<1>1. /\ srv' = [srv EXCEPT ![s] = "waiting"]
      /\ read' = [read EXCEPT ![s] = {}]
      /\ UNCHANGED <<gen, next, exists, content, overlap>>
      /\ \A t \in Services, f \in {CARDS, KEYS} : loaded'[t][f] \in {Unread, loaded[t][f]}
      /\ \A t \in Services : t # s => loaded'[t] = loaded[t]
  BY DEF Ends, Goto, fileVars
<1>2. OneRun' /\ StartsEmpty' /\ KeysPending'
  BY <1>1 DEF OneRun, StartsEmpty, KeysPending, Running
<1>3. ReadIsLoaded'
  BY <1>1 DEF ReadIsLoaded
<1>4. BeforeMarker'
  BY <1>1 DEF BeforeMarker, Running
<1>5. AfterMarker'
  <2>1. ASSUME NEW a \in Generators, Author(a) PROVE Author(a)'
    BY <1>1, <2>1 DEF Author, Running
  <2> QED
    BY <1>1, <2>1 DEF AfterMarker
<1> QED
  BY <1>2, <1>3, <1>4, <1>5 DEF Order

\* Of the keys and cards nobody reads anything but their author's.
LEMMA ParsedIsAuthors ==
    ASSUME IInv, ~overlap, NEW a \in Generators, Author(a),
           NEW f \in {CARDS, KEYS}, NEW v \in Parsed(f)
    PROVE  v = a /\ \A g \in Generators : Running(g) => f # KEYS
<1> USE DEF IInv
<1>1. content[f] \subseteq {a}
  BY DEF Author
<1>2. content[f] # {}
  BY DEF Parsed
<1>3. content[f] = {a}
  BY <1>1, <1>2
<1>6. Cardinality({a}) = 1
  BY FS_Singleton
<1>4. ~BeingWritten(f)
  BY <1>2 DEF BeingWritten, StartsEmpty
<1>5. v = a
  BY <1>3, <1>4, <1>6 DEF Parsed, Whole
<1> QED
  BY <1>2, <1>5 DEF KeysPending

\* What a service loads is of the one run that wrote.
LEMMA LoadOrder ==
    ASSUME IInv, NEW s \in Services, NEW f \in Files, Load(s, f)
    PROVE  Order'
<1> USE DEF IInv, TypeOK
<1>1. PICK v \in Parsed(f) :
         loaded' = IF f \in {CARDS, KEYS} THEN [loaded EXCEPT ![s][f] = v] ELSE loaded
  BY DEF Load
<1>2. /\ srv[s] = "loading" /\ NextRead(s, f)
      /\ srv' = [srv EXCEPT ![s] = IF f = KEYS THEN "serving" ELSE "loading"]
      /\ read' = [read EXCEPT ![s] = @ \cup {f}]
      /\ UNCHANGED <<gen, next, exists, content, overlap>>
  BY DEF Load, Goto, fileVars
<1>3. v # Unread
  BY ParsedType, SeedAssumption
<1>4. OneRun' /\ StartsEmpty'
  BY <1>2 DEF OneRun, StartsEmpty, Running
<1>5. ReadIsLoaded'
  <2>1. f = KEYS => Reads(s) \subseteq read'[s]
    BY <1>2, ReadsType DEF NextRead, Files, KEYS
  <2>2. \A t \in Services : srv'[t] = "serving" => Reads(t) \subseteq read'[t]
    BY <1>2, <2>1 DEF ReadIsLoaded
  <2>3. \A t \in Services, e \in {CARDS, KEYS} : e \in read'[t] => loaded'[t][e] # Unread
    BY <1>1, <1>2, <1>3 DEF ReadIsLoaded
  <2> QED
    BY <2>2, <2>3 DEF ReadIsLoaded
<1>6. CASE overlap
  BY <1>2, <1>4, <1>5, <1>6 DEF Order, BeforeMarker, AfterMarker, KeysPending
<1>7. CASE ~overlap
  <2>1. MARKER \in exists
    BY <1>2, <1>7 DEF BeforeMarker
  <2>2. PICK a \in Generators : Author(a)
    BY <1>7, <2>1 DEF AfterMarker
  <2>3. \A t \in Services, e \in {CARDS, KEYS} :
           loaded'[t][e] = loaded[t][e] \/ (e = f /\ loaded'[t][e] = v)
    BY <1>1
  <2>4. f \in {CARDS, KEYS} => v = a /\ \A g \in Generators : Running(g) => f # KEYS
    BY <1>7, <2>2, ParsedIsAuthors
  <2>5. Author(a)'
    BY <1>2, <2>2, <2>3, <2>4 DEF Author, Running
  <2>6. KeysPending'
    BY <1>2, <1>7, <2>3, <2>4 DEF KeysPending, Running
  <2> QED
    BY <1>2, <1>4, <1>5, <2>1, <2>5, <2>6 DEF Order, BeforeMarker, AfterMarker
<1> QED
  BY <1>6, <1>7

-----------------------------------------------------------------------------
(* The theorems *)

\* The invariant is inductive.
LEMMA NextIInv == IInv /\ [Next]_vars => IInv'
<1> SUFFICES ASSUME IInv, [Next]_vars PROVE IInv'
  OBVIOUS
<1>1. TypeOK' /\ NextInRange'
  BY TypeStep DEF IInv
<1>2. ASSUME NEW g \in Generators, GeneratorStep(g) PROVE Order'
  BY <1>2, StartOrder, OpenOrder, CloseOrder, CrashOrder DEF GeneratorStep
<1>3. ASSUME NEW s \in Services, ServiceStep(s) \/ Restart(s) PROVE Order'
  BY <1>3, FoundOrder, LoadOrder, EndsOrder DEF ServiceStep, LoadFails, Restart
<1>4. ASSUME UNCHANGED vars PROVE Order'
  <2>1. UNCHANGED <<gen, next, exists, content, overlap, srv, read, loaded>>
    BY <1>4 DEF vars, fileVars, serviceVars
  <2>2. OneRun' /\ StartsEmpty' /\ KeysPending'
    BY <2>1 DEF IInv, OneRun, StartsEmpty, KeysPending, Running
  <2>3. ReadIsLoaded' /\ BeforeMarker'
    BY <2>1 DEF IInv, ReadIsLoaded, BeforeMarker, Running
  <2>4. AfterMarker'
    <3>1. ASSUME NEW a \in Generators, Author(a) PROVE Author(a)'
      BY <2>1, <3>1 DEF Author, Running
    <3> QED
      BY <2>1, <3>1 DEF IInv, AfterMarker
  <2> QED
    BY <2>2, <2>3, <2>4 DEF Order
<1>5. Order'
  <2>1. CASE \E g \in Generators : GeneratorStep(g)
    BY <1>2, <2>1
  <2>2. CASE \E s \in Services : ServiceStep(s) \/ Restart(s)
    BY <1>3, <2>2
  <2> QED
    BY <1>4, <2>1, <2>2 DEF Next
<1> QED
  BY <1>1, <1>5 DEF IInv, Order

\* So it holds in every reachable state.
LEMMA Invariance == Spec => []IInv
<1> QED
  BY InitIInv, NextIInv, PTL DEF Spec

\* The state is well-typed in every behaviour.
THEOREM TypeCorrect == Spec => []TypeOK
<1>1. IInv => TypeOK
  BY DEF IInv
<1> QED
  BY <1>1, Invariance, PTL

\* Unless two runs of the generator overlap, the keys and the cards in use
\* come from one of them, however many are started, killed and started again.
LEMMA OneGenerationInv == IInv => OneGeneration
<1> SUFFICES ASSUME IInv, ~overlap PROVE \E g \in Generators : \A s \in Serving(Services) :
                    \A f \in Reads(s) \cap {CARDS, KEYS} : loaded[s][f] = g
  BY DEF OneGeneration
<1> USE DEF IInv
<1>1. CASE MARKER \notin exists
  BY <1>1, SeedAssumption DEF BeforeMarker, Serving
<1>2. CASE MARKER \in exists
  <2>1. PICK a \in Generators : Author(a)
    BY <1>2 DEF AfterMarker
  <2>2. ASSUME NEW s \in Serving(Services), NEW f \in Reads(s) \cap {CARDS, KEYS}
        PROVE  loaded[s][f] = a
    BY <2>1, <2>2 DEF Serving, Author, ReadIsLoaded
  <2> QED
    BY <2>2
<1> QED
  BY <1>1, <1>2

\* KeysOfOneRun: the promise of --if-missing (generate_data.py:359-366) for any
\* number of runs and services.
THEOREM KeysOfOneRun == Spec => []OneGeneration
  BY Invariance, OneGenerationInv, PTL

\* Nobody replaces a file, once somebody serves, unless two runs overlap.
THEOREM NothingIsReplaced == Spec => FilesStayPut
<1>1. ASSUME IInv, [Next]_vars, ~overlap', Serving(Services) # {}
      PROVE  content' = content
  <2> USE DEF IInv
  <2>1. ~overlap
    BY <1>1 DEF Next, GeneratorStep, ServiceStep, Start, Open, Close, Crash, Found, Load,
                LoadFails, Restart, Ends, vars, fileVars
  <2>2. PICK s \in Services : srv[s] = "serving"
    BY <1>1 DEF Serving
  <2>3. loaded[s][KEYS] # Unread
    BY <1>1, <2>2, ReadsType DEF ReadIsLoaded
  <2>4. \A g \in Generators : ~Running(g)
    BY <1>1, <2>1, <2>3 DEF KeysPending
  <2> QED
    BY <1>1, <2>4 DEF Running, Next, GeneratorStep, ServiceStep, Start, Open, Close, Crash,
                      Found, Load, LoadFails, Restart, Ends, vars, fileVars
<1> QED
  BY <1>1, Invariance, PTL DEF Spec, FilesStayPut

-----------------------------------------------------------------------------
(* The decision *)

\* is_expired: a card is good through the month printed on it and not after,
\* December included, for every date ISO 8583 can express.
LEMMA ExpiryIsTheMonth ==
    ASSUME NEW mm \in 1 .. 12, NEW yy \in 0 .. 99,
           NEW now, now.year \in Nat, now.month \in 1 .. 12
    PROVE  IsExpired(Field14(<<mm, yy>>), now) <=> ~InMonth(<<mm, yy>>, now)
<1> DEFINE y == now.year  m == now.month
<1>1. CASE mm = 12
  <2>1. EndOfMonth(Field14(<<mm, yy>>)) = [year |-> 2001 + yy, month |-> 1]
    BY <1>1 DEF EndOfMonth, Field14
  <2> QED
    BY <1>1, <2>1 DEF IsExpired, InMonth
<1>2. CASE mm < 12
  <2>1. mm \div 12 = 0 /\ mm % 12 = mm
    BY <1>2
  <2>2. EndOfMonth(Field14(<<mm, yy>>)) = [year |-> 2000 + yy, month |-> mm + 1]
    BY <2>1 DEF EndOfMonth, Field14
  <2> QED
    BY <1>2, <2>2 DEF IsExpired, InMonth
<1> QED
  BY <1>1, <1>2

\* maybe_typo: a digit that is shifted by 1 to 9 is another digit.
LEMMA TypoIsWrong ==
    ASSUME NEW digit \in 0 .. 9, NEW shift \in 1 .. 9
    PROVE  TypoDigit(digit, shift) \in 0 .. 9 \ {digit}
<1>1. CASE digit + shift < 10
  BY <1>1 DEF TypoDigit
<1>2. CASE digit + shift >= 10
  <2>1. (digit + shift) % 10 = digit + shift - 10
    BY <1>2
  <2> QED
    BY <2>1 DEF TypoDigit
<1> QED
  BY <1>1, <1>2

\* For a request, is_expired and the month on the card agree.
LEMMA RequestInMonth ==
    ASSUME NEW r \in Requests, NEW now \in Months
    PROVE  IsExpired(Field14(r.expiry), now) <=> ~InMonth(r.expiry, now)
<1>1. PICK mm \in 1 .. 12, yy \in 0 .. 99 : r.expiry = <<mm, yy>>
  <2>1. r.expiry \in (1 .. 12) \X (0 .. 99)
    BY SeedAssumption
  <2>2. r.expiry = <<r.expiry[1], r.expiry[2]>>
    BY <2>1
  <2> QED
    BY <2>1, <2>2
<1>2. now.year \in Nat /\ now.month \in 1 .. 12
  BY SeedAssumption
<1> QED
  BY <1>1, <1>2, ExpiryIsTheMonth

\* Only a block that holds the right digits can pass the PIN check.
LEMMA WrongPinFails ==
    ASSUME NEW r, NEW block, NEW cards, NEW keys, PinCanPass(r, block, cards, keys)
    PROVE  r.pin = "none" \/ (Presented(r) /\ block.pin = "right")
<1> SUFFICES ASSUME r.pin # "none" PROVE Presented(r) /\ block.pin = "right"
  OBVIOUS
<1>1. Presented(r)
  BY DEF PinCanPass
<1>2. PICK pq \in Recovered(r, block, cards, keys) : Same(pq[1], pq[2])
  BY DEF PinCanPass
<1>3. /\ pq[1] \in Decode(block, r.pan, Key("transit", keys))
      /\ pq[2] \in Decode(AtRest(r.pan, cards), r.pan, Key("storage", keys))
  BY DEF Recovered
<1>4. pq[2] \in {"right", "garbled", "raises"}
  BY <1>3 DEF Decode, AtRest, Encode
<1>5. pq[1] \in {block.pin, "garbled", "raises"}
  BY <1>3 DEF Decode
<1> QED
  BY <1>1, <1>2, <1>4, <1>5 DEF Same

\* What decide_response leaves to the generic choice is in order.
LEMMA GenericIsInOrder ==
    ASSUME NEW r \in Requests, NEW now \in Months, NEW block, NEW cards, NEW keys,
           "generic" \in Decide(r, block, now, cards, keys)
    PROVE  /\ r.pan \in Vault /\ InMonth(r.expiry, now) /\ r.cvv \in {"none", "right"}
           /\ r.pin = "none" \/ (Presented(r) /\ block.pin = "right")
<1>1. r.pan \in Vault /\ ~IsExpired(Field14(r.expiry), now)
  BY DEF Decide
<1>2. PinCanPass(r, block, cards, keys) /\ CvvPasses(r)
  BY <1>1 DEF Decide
<1> QED
  BY <1>1, <1>2, RequestInMonth, WrongPinFails DEF CvvPasses

\* A wrong PIN or CVV, a missing one and a card past its month are refused,
\* whatever keys and cards the three parties hold.
LEMMA WrongIsRefused == WrongIsNeverApproved
<1> SUFFICES ASSUME NEW m, NEW g, NEW i, NEW r \in Requests, NEW now \in Months,
                    "generic" \in AnswersOf(r, now, m, g, i)
             PROVE  InOrder(r, now)
  BY DEF WrongIsNeverApproved
<1> DEFINE km == loaded[m][KEYS]  kg == loaded[g][KEYS]
           ci == loaded[i][CARDS]  ki == loaded[i][KEYS]
           typed == Encode(r.pin, r.pan, Key("terminal", km))
<1>1. CASE Presented(r)
  <2>1. PICK b \in Translate(typed, r.pan, kg) : "generic" \in Decide(r, b, now, ci, ki)
    BY <1>1 DEF AnswersOf, Answers
  <2>2. b.pin \in {r.pin, "garbled", "raises"}
    BY DEF Translate, Decode, Encode
  <2> QED
    BY <1>1, <2>1, <2>2, GenericIsInOrder DEF InOrder, Presented
<1>2. CASE ~Presented(r)
  <2>1. "generic" \in Decide(r, typed, now, ci, ki)
    BY <1>2 DEF AnswersOf, Answers
  <2> QED
    BY <1>2, <2>1, GenericIsInOrder DEF InOrder, Presented
<1> QED
  BY <1>1, <1>2

\* decide_response lets nothing wrong pass in any reachable state.
THEOREM WrongIsRefusedAlways == Spec => []WrongIsNeverApproved
  BY WrongIsRefused, PTL

\* Under one run's keys a block comes out as it went in.
LEMMA RoundTrip ==
    ASSUME NEW pin, NEW pan, NEW key
    PROVE  Decode(Encode(pin, pan, key), pan, key) = {pin}
  BY DEF Decode, Encode

\* The right PIN on a card in its month passes every check, through all
\* three zones, if all keys and cards are of one run.
LEMMA RightPasses ==
    ASSUME NEW r \in Requests, NEW now \in Months, NEW a, InOrder(r, now)
    PROVE  Answers(r, now, a, a, a, a) = {"generic"}
<1> DEFINE typed == Encode(r.pin, r.pan, Key("terminal", a))
           sent == Encode(r.pin, r.pan, Key("transit", a))
<1>1. r.pan \in Vault /\ ~IsExpired(Field14(r.expiry), now) /\ CvvPasses(r)
  BY RequestInMonth DEF InOrder, CvvPasses
<1>2. CASE r.pin = "none"
  <2>1. PinCanPass(r, typed, a, a) /\ ~PinCanFail(r, typed, a, a) /\ ~Presented(r)
    BY <1>2 DEF PinCanPass, PinCanFail, Presented
  <2>2. Decide(r, typed, now, a, a) = {"generic"}
    BY <1>1, <2>1 DEF Decide
  <2> QED
    BY <2>1, <2>2 DEF Answers
<1>3. CASE r.pin = "right"
  <2>1. Decode(sent, r.pan, Key("transit", a)) = {"right"}
    BY <1>3, RoundTrip
  <2>2. Decode(AtRest(r.pan, a), r.pan, Key("storage", a)) = {"right"}
    BY RoundTrip DEF AtRest
  <2>3. \A pq \in Recovered(r, sent, a, a) : Same(pq[1], pq[2])
    BY <2>1, <2>2 DEF Recovered, Same
  <2>4. <<"right", "right">> \in Recovered(r, sent, a, a)
    BY <2>1, <2>2 DEF Recovered
  <2>5. PinCanPass(r, sent, a, a) /\ ~PinCanFail(r, sent, a, a) /\ Presented(r)
    BY <1>3, <2>3, <2>4 DEF PinCanPass, PinCanFail, Presented
  <2>6. Decide(r, sent, now, a, a) = {"generic"}
    BY <1>1, <2>5 DEF Decide
  <2>7. Translate(typed, r.pan, a) = {sent}
    BY RoundTrip DEF Translate
  <2>8. sent.pin # "raises"
    BY <1>3 DEF Encode
  <2> QED
    BY <2>5, <2>6, <2>7, <2>8 DEF Answers
<1> QED
  BY <1>2, <1>3 DEF InOrder

\* So a cardholder who enters the right PIN is never told that it is wrong
\* by the state of the keys, unless two runs of the generator overlap.
LEMMA RightIsAcceptedInv == IInv => RightIsAccepted
<1> SUFFICES ASSUME IInv, ~overlap,
                    NEW m \in Serving(Merchants), NEW g \in Serving(Gateways),
                    NEW i \in Serving(Issuers),
                    NEW r \in Requests, NEW now \in Months, InOrder(r, now)
             PROVE  AnswersOf(r, now, m, g, i) = {"generic"}
  BY DEF RightIsAccepted
<1>1. PICK a \in Generators :
         \A s \in Serving(Services) : \A f \in Reads(s) \cap {CARDS, KEYS} : loaded[s][f] = a
  BY OneGenerationInv DEF OneGeneration
<1>2. m \in Serving(Services) /\ g \in Serving(Services) /\ i \in Serving(Services)
  BY DEF Serving, Services
<1>3. loaded[m][KEYS] = a /\ loaded[g][KEYS] = a /\ loaded[i][KEYS] = a
  BY <1>1, <1>2, ReadsType
<1>4. loaded[i][CARDS] = a
  <2>1. CARDS \in Reads(i)
    BY SeedAssumption DEF Reads, Serving
  <2> QED
    BY <1>1, <1>2, <2>1
<1> QED
  BY <1>3, <1>4, RightPasses DEF AnswersOf

\* A right PIN passes through all three zones in every reachable state.
THEOREM RightIsAcceptedAlways == Spec => []RightIsAccepted
  BY Invariance, RightIsAcceptedInv, PTL
=============================================================================
