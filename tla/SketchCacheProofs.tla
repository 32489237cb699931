-------------------------- MODULE SketchCacheProofs --------------------------
(***************************************************************************)
(* What the operators of SketchCache do to a cache: the lemmas from which  *)
(* the theorems about a handle are proved.                                 *)
(***************************************************************************)
EXTENDS SketchCache, TLAPS

-----------------------------------------------------------------------------
(* Feeds *)

\* A built sketch counts rows of its table only, and each once
\* (the collect callbacks).
LEMMA BuiltSound ==
    ASSUME NEW kind, NEW i \in Input, NEW t
    PROVE  /\ Built(kind, i, t) \in Feed
           /\ Sound(Built(kind, i, t), t[i.table])
  BY DEF Built, Feed, Mark, Sound, Selected

\* Streaming leaves a feed a feed.
LEMMA FedTyped ==
    ASSUME NEW kind, NEW c, NEW feed \in Feed, NEW rs
    PROVE  Fed(kind, c, feed, rs) \in Feed
  <1>1. \A r \in Row : StreamMark(kind, Cell[r][c]) \in Mark
    BY DEF StreamMark, Mark
  <1>2. \A r \in Row : feed[r] \in Mark
    BY DEF Feed
  <1>3. "again" \in Mark
    BY DEF Mark
  <1> QED
    BY <1>1, <1>2, <1>3 DEF Fed, Feed

\* A sound feed stays sound when rows are streamed that the table has just
\* got: none of them can have been counted before.
LEMMA FedSound ==
    ASSUME NEW kind, NEW c, NEW feed \in Feed, NEW rs,
           NEW rows, NEW new, rs \subseteq new, new \cap rows = {},
           Sound(feed, rows)
    PROVE  Sound(Fed(kind, c, feed, rs), rows \cup new)
  <1> SUFFICES ASSUME NEW r \in Row, Fed(kind, c, feed, rs)[r] # "no"
               PROVE  /\ r \in rows \cup new
                      /\ Fed(kind, c, feed, rs)[r] # "again"
    BY DEF Sound
  <1>1. CASE r \notin rs
    <2>1. Fed(kind, c, feed, rs)[r] = feed[r]
      BY <1>1 DEF Fed
    <2> QED
      BY <2>1 DEF Sound
  <1>2. CASE r \in rs
    <2>1. r \in new /\ r \notin rows
      BY <1>2
    <2>2. feed[r] = "no"
      BY <2>1 DEF Sound
    <2>3. Fed(kind, c, feed, rs)[r] = StreamMark(kind, Cell[r][c])
      BY <1>2, <2>2 DEF Fed
    <2> QED
      BY <2>1, <2>3 DEF StreamMark
  <1> QED
    BY <1>1, <1>2

LEMMA NothingFedSound ==
    /\ NothingFed \in Feed
    /\ \A rows : Sound(NothingFed, rows)
  BY DEF NothingFed, Feed, Mark, Sound

\* A sound feed stays sound when its table grows.
LEMMA SoundGrows ==
    ASSUME NEW feed, NEW rows, NEW more, rows \subseteq more, Sound(feed, rows)
    PROVE  Sound(feed, more)
  BY DEF Sound

-----------------------------------------------------------------------------
(* Keys *)

LEMMA DimTyped ==
    /\ \A kind \in Kind, b \in Bound : WarmDim(kind, b) \in Dim
    /\ \A q \in Query : Need(q) \in Dim
  <1>1. /\ Precision \in [Bound -> Nat] /\ Capacity \in [Bound -> Nat]
        /\ Width \in [Bound -> Nat] /\ Depth \in [Bound -> Nat]
        /\ ErrorTop \in [Bound -> Nat]
    BY BoundAssumption
  <1>2. \A k \in Nat, b \in Bound : TopCapacity(k, b) \in Nat
    BY <1>1 DEF TopCapacity
  <1>3. \A b \in Bound : HllDim(b) \in Dim /\ KllDim(b) \in Dim
    BY <1>1 DEF HllDim, KllDim, Dim
  <1>4. \A b \in Bound, n \in Nat : FreqDim(b, n) \in Dim
    BY <1>1 DEF FreqDim, Dim
  <1>5. ASSUME NEW kind \in Kind, NEW b \in Bound
        PROVE  WarmDim(kind, b) \in Dim
    BY <1>2, <1>3, <1>4 DEF WarmDim, Kind, PrewarmK
  <1>6. ASSUME NEW q \in Query
        PROVE  Need(q) \in Dim
    <2>1. q.bound \in Bound /\ q.k \in Nat /\ q.fn \in Function
      BY MaxKAssumption DEF Query
    <2> QED
      BY <1>2, <1>3, <1>4, <2>1 DEF Need, Function
  <1> QED
    BY <1>5, <1>6

LEMMA OwnKeyTyped ==
    ASSUME NEW q \in Query
    PROVE  OwnKey(q) \in Key
  <1>1. KindOf(q.fn) \in Kind
    BY DEF KindOf, Kind
  <1>2. q.input \in Input /\ q.text \in Text
    BY DEF Query
  <1> QED
    BY <1>1, <1>2, DimTyped DEF OwnKey, Key

LEMMA WarmKeyTyped ==
    ASSUME NEW kind \in Kind, NEW st \in Statement, NEW c \in Col
    PROVE  /\ WarmKey(kind, c, st) \in Key
           /\ WarmKey(kind, c, st).input.table = st.table
           /\ WarmKey(kind, c, st).kind = kind
  <1>1. st.table \in Table /\ st.bound \in Bound
    BY DEF Statement
  <1> QED
    BY <1>1, DimTyped DEF WarmKey, Key, Input, Text

-----------------------------------------------------------------------------
(* Partial functions *)

LEMMA OverwrittenPartial ==
    ASSUME NEW D, NEW R, NEW f, NEW g, IsPartial(f, D, R), IsPartial(g, D, R)
    PROVE  IsPartial(Overwritten(f, g), D, R)
  BY DEF IsPartial, Overwritten

LEMMA NoSketchesPartial ==
    ASSUME NEW D, NEW R
    PROVE  IsPartial(NoSketches, D, R)
  BY DEF IsPartial, NoSketches
-----------------------------------------------------------------------------
(* Streaming *)

\* Streaming changes the feeds of some of the sketches it concerns, and
\* nothing else (add_inserted_values_to_*_cache).
LEMMA StreamShape ==
    ASSUME NEW o, NEW kind, NEW st, NEW p \in StreamOutcomes(o, kind, st)
    PROVE  \E ks \in SUBSET Streams(o.cache, kind, st) :
              p.cache = Streamed(o.cache, ks, st)
  <1> DEFINE all == Streams(o.cache, kind, st)
             bad == {k \in all : Accepted(kind, k.input.expr, st) # Range(st.rows)}
  <1>1. StreamOutcomes(o, kind, st) =
           IF bad = {}
           THEN {[cache |-> Streamed(o.cache, all, st),
                  handled |-> o.handled \/ all # {}]}
           ELSE {[cache |-> Streamed(o.cache, reached, st),
                  handled |-> o.handled] :
                    reached \in {ks \in SUBSET all :
                                    \E last \in bad : ks \cap bad = {last}}}
    BY Zenon DEF StreamOutcomes
  <1> HIDE DEF bad, all
  <1>2. CASE bad = {}
    <2>1. p = [cache |-> Streamed(o.cache, all, st),
               handled |-> o.handled \/ all # {}]
      BY <1>1, <1>2
    <2>2. p.cache = Streamed(o.cache, all, st)
      BY <2>1
    <2> QED
      BY <2>2 DEF all
  <1>3. CASE bad # {}
    <2>1. PICK ks \in SUBSET all :
             p = [cache |-> Streamed(o.cache, ks, st), handled |-> o.handled]
      BY <1>1, <1>3
    <2>2. p.cache = Streamed(o.cache, ks, st)
      BY <2>1
    <2> QED
      BY <2>2 DEF all
  <1> QED
    BY <1>2, <1>3

LEMMA StreamedEntryFeed ==
    ASSUME NEW c, NEW st, NEW k, c[k] \in Entry
    PROVE  /\ StreamedEntry(c, k, st) \in Entry
           /\ StreamedEntry(c, k, st).seed = c[k].seed
           /\ StreamedEntry(c, k, st).feed =
                 Fed(k.kind, k.input.expr, c[k].feed,
                     Accepted(k.kind, k.input.expr, st))
  <1>1. c[k].feed \in Feed
    BY DEF Entry
  <1>2. Fed(k.kind, k.input.expr, c[k].feed,
            Accepted(k.kind, k.input.expr, st)) \in Feed
    BY <1>1, FedTyped
  <1> QED
    BY <1>2 DEF StreamedEntry, Entry

LEMMA StreamTyped ==
    ASSUME NEW o, NEW kind, NEW st, NEW p \in StreamOutcomes(o, kind, st),
           IsPartial(o.cache, Key, Entry)
    PROVE  /\ IsPartial(p.cache, Key, Entry)
           /\ DOMAIN p.cache = DOMAIN o.cache
           /\ \A k \in DOMAIN p.cache : p.cache[k].seed = o.cache[k].seed
  <1>1. PICK ks \in SUBSET Streams(o.cache, kind, st) :
           p.cache = Streamed(o.cache, ks, st)
    BY StreamShape
  <1>2. \A k \in DOMAIN o.cache : o.cache[k] \in Entry
    BY DEF IsPartial
  <1>3. \A k \in DOMAIN o.cache :
           /\ StreamedEntry(o.cache, k, st) \in Entry
           /\ StreamedEntry(o.cache, k, st).seed = o.cache[k].seed
    BY <1>2, StreamedEntryFeed
  <1> QED
    BY <1>1, <1>2, <1>3 DEF IsPartial, Streamed

\* Only rows of the statement are accepted.
LEMMA AcceptedRows ==
    ASSUME NEW kind, NEW c, NEW st
    PROVE  Accepted(kind, c, st) \subseteq Range(st.rows)
  BY DEF Accepted, Range

-----------------------------------------------------------------------------
(* Prewarming *)

LEMMA WarmRowsRows ==
    ASSUME NEW kind, NEW c, NEW st
    PROVE  WarmRows(kind, c, st) \subseteq Range(st.rows)
  BY AcceptedRows DEF WarmRows

\* Prewarming adds new sketches of the statement's rows and leaves those
\* that are there alone (prewarm_streaming_*_cache).
LEMMA WarmShape ==
    ASSUME NEW o, NEW kind \in Kind, NEW st \in Statement, NEW s
    PROVE  \E ks \in SUBSET Key :
              /\ \A k \in ks : /\ k \notin DOMAIN o.cache
                               /\ k.kind = kind
                               /\ k.input.table = st.table
              /\ Prewarmed(o, kind, st, s).cache =
                    Overwritten(o.cache, Warmed(ks, st, s))
  <1> DEFINE missing == Missing(o.cache, kind, st)
             stuck == {n \in missing :
                         /\ kind = "hll"
                         /\ WarmRows(kind, st.warm[n], st) # Range(st.rows)}
             kept == IF kind = "hll"
                     THEN {n \in missing : \A m \in stuck : n <= m}
                     ELSE {n \in missing : WarmRows(kind, st.warm[n], st) # {}}
             ks == {WarmKey(kind, st.warm[n], st) : n \in kept}
  <1>1. Prewarmed(o, kind, st, s).cache =
           Overwritten(o.cache, Warmed(ks, st, s))
    BY DEF Prewarmed
  <1>2. \A n \in kept : /\ n \in DOMAIN st.warm
                        /\ WarmKey(kind, st.warm[n], st) \notin DOMAIN o.cache
    BY DEF Missing
  <1>3. \A n \in DOMAIN st.warm : st.warm[n] \in Col
    BY DEF Statement
  <1>4. \A k \in ks : /\ k \in Key
                      /\ k \notin DOMAIN o.cache
                      /\ k.kind = kind
                      /\ k.input.table = st.table
    BY <1>2, <1>3, WarmKeyTyped
  <1> HIDE DEF ks
  <1> QED
    BY <1>1, <1>4

LEMMA WarmedTyped ==
    ASSUME NEW ks \in SUBSET Key, NEW st, NEW s \in Seed
    PROVE  /\ IsPartial(Warmed(ks, st, s), Key, Entry)
           /\ \A k \in ks : Warmed(ks, st, s)[k].seed = s
           /\ DOMAIN Warmed(ks, st, s) = ks
  <1>1. /\ DOMAIN Warmed(ks, st, s) = ks
        /\ \A k \in ks : Warmed(ks, st, s)[k].seed = s
        /\ Warmed(ks, st, s) = [k \in DOMAIN Warmed(ks, st, s) |->
                                  Warmed(ks, st, s)[k]]
    BY DEF Warmed
  <1>2. ASSUME NEW k \in ks
        PROVE  Warmed(ks, st, s)[k] \in Entry
    BY FedTyped, NothingFedSound DEF Warmed, Entry
  <1> QED
    BY <1>1, <1>2 DEF IsPartial

LEMMA WarmTyped ==
    ASSUME NEW o, NEW kind \in Kind, NEW st \in Statement, NEW s \in Seed,
           IsPartial(o.cache, Key, Entry),
           \A k \in DOMAIN o.cache : o.cache[k].seed = s
    PROVE  LET p == Prewarmed(o, kind, st, s)
           IN  /\ IsPartial(p.cache, Key, Entry)
               /\ \A k \in DOMAIN p.cache : p.cache[k].seed = s
  <1>1. PICK ks \in SUBSET Key :
           Prewarmed(o, kind, st, s).cache =
              Overwritten(o.cache, Warmed(ks, st, s))
    BY WarmShape
  <1>2. /\ IsPartial(Warmed(ks, st, s), Key, Entry)
        /\ \A k \in ks : Warmed(ks, st, s)[k].seed = s
        /\ DOMAIN Warmed(ks, st, s) = ks
    BY WarmedTyped
  <1>3. IsPartial(Prewarmed(o, kind, st, s).cache, Key, Entry)
    BY <1>1, <1>2, OverwrittenPartial
  <1>4. \A k \in DOMAIN Prewarmed(o, kind, st, s).cache :
           Prewarmed(o, kind, st, s).cache[k].seed = s
    BY <1>1, <1>2 DEF Overwritten
  <1> QED
    BY <1>3, <1>4

-----------------------------------------------------------------------------
(* The six stages of an INSERT *)

\* A well-typed cache all of whose sketches were made with seed s.
Typed(c, s) ==
    /\ IsPartial(c, Key, Entry)
    /\ \A k \in DOMAIN c : c[k].seed = s

LEMMA IngestTyped ==
    ASSUME NEW outs, NEW kind \in Kind, NEW st \in Statement, NEW s \in Seed,
           \A o \in outs : Typed(o.cache, s)
    PROVE  \A o \in Ingest(outs, kind, st, s) : Typed(o.cache, s)
  <1> SUFFICES ASSUME NEW o \in outs, NEW p \in StreamOutcomes(o, kind, st)
               PROVE  Typed(Prewarmed(p, kind, st, s).cache, s)
    BY DEF Ingest
  <1>1. Typed(o.cache, s)
    OBVIOUS
  <1>2. /\ IsPartial(p.cache, Key, Entry)
        /\ \A k \in DOMAIN p.cache : p.cache[k].seed = s
    BY <1>1, StreamTyped DEF Typed
  <1> QED
    BY <1>2, WarmTyped DEF Typed

\* An INSERT leaves a well-typed cache of the handle's seed.
THEOREM OutcomesTyped ==
    ASSUME NEW c, NEW st \in Statement, NEW s \in Seed, Typed(c, s)
    PROVE  \A o \in Outcomes(c, st, s) : Typed(o.cache, s)
  <1> DEFINE o0 == {[cache |-> c, handled |-> FALSE]}
             o1 == Ingest(o0, "hll", st, s)
             o2 == Ingest(o1, "kll", st, s)
  <1>1. "hll" \in Kind /\ "kll" \in Kind /\ "freq" \in Kind
    BY DEF Kind
  <1>2. \A o \in o0 : Typed(o.cache, s)
    OBVIOUS
  <1>3. \A o \in o1 : Typed(o.cache, s)
    <2> HIDE DEF o0
    <2> QED
      BY <1>1, <1>2, IngestTyped
  <1>4. \A o \in o2 : Typed(o.cache, s)
    <2> HIDE DEF o1
    <2> QED
      BY <1>1, <1>3, IngestTyped
  <1>5. Outcomes(c, st, s) = Ingest(o2, "freq", st, s)
    BY DEF Outcomes
  <1> HIDE DEF o2
  <1> QED
    BY <1>1, <1>4, <1>5, IngestTyped

\* Between the stages: the sketches of the kinds in done are sound for the
\* tables after the INSERT, the others still for those before it.
Between(c, done, before, after) ==
    \A k \in DOMAIN c :
        Sound(c[k].feed, IF k.kind \in done THEN after[k.input.table]
                         ELSE before[k.input.table])

\* after is before with the rows of st, which are new in their table.
Appended(st, before, after) ==
    /\ Range(st.rows) \cap before[st.table] = {}
    /\ after[st.table] = before[st.table] \cup Range(st.rows)
    /\ \A t \in Table : t # st.table => after[t] = before[t]

\* Streaming into any of the sketches a statement concerns, of one kind.
LEMMA StreamedSound ==
    ASSUME NEW c, NEW kind, NEW st \in Statement,
           NEW ks \in SUBSET Streams(c, kind, st),
           NEW done, kind \notin done, NEW before, NEW after,
           IsPartial(c, Key, Entry),
           Appended(st, before, after),
           Between(c, done, before, after)
    PROVE  Between(Streamed(c, ks, st), done \cup {kind}, before, after)
  <1> DEFINE p == Streamed(c, ks, st)
  <1> SUFFICES ASSUME NEW k \in DOMAIN c
               PROVE  Sound(p[k].feed,
                            IF k.kind \in done \cup {kind}
                            THEN after[k.input.table] ELSE before[k.input.table])
    BY DEF Between, Streamed
  <1>2. c[k] \in Entry /\ c[k].feed \in Feed /\ k.input.table \in Table
    BY DEF IsPartial, Entry, Key, Input
  <1>3. before[k.input.table] \subseteq after[k.input.table]
    BY <1>2 DEF Appended
  <1>4. CASE k \in ks
    <2>1. k.kind = kind /\ k.input.table = st.table
      BY <1>4 DEF Streams
    <2>2. Sound(c[k].feed, before[st.table])
      BY <2>1 DEF Between
    <2>3. p[k].feed = Fed(k.kind, k.input.expr, c[k].feed,
                                Accepted(k.kind, k.input.expr, st))
      BY <1>2, <1>4, StreamedEntryFeed DEF Streamed
    <2>4. Sound(p[k].feed, before[st.table] \cup Range(st.rows))
      <3>1. Accepted(k.kind, k.input.expr, st) \subseteq Range(st.rows)
        BY AcceptedRows
      <3>2. Range(st.rows) \cap before[st.table] = {}
        BY DEF Appended
      <3>3. Sound(Fed(k.kind, k.input.expr, c[k].feed,
                      Accepted(k.kind, k.input.expr, st)),
                  before[st.table] \cup Range(st.rows))
        BY <1>2, <2>2, <3>1, <3>2, FedSound
      <3> QED
        BY <2>3, <3>3
    <2> QED
      BY <2>1, <2>4 DEF Appended
  <1>5. CASE k \notin ks
    <2>1. p[k].feed = c[k].feed
      BY <1>5 DEF Streamed
    <2>2. CASE k.kind \in done
      BY <2>1, <2>2 DEF Between
    <2>3. CASE k.kind \notin done
      <3>1. Sound(c[k].feed, before[k.input.table])
        BY <2>3 DEF Between
      <3>2. Sound(c[k].feed, after[k.input.table])
        BY <1>3, <3>1, SoundGrows
      <3> QED
        BY <2>1, <2>3, <3>1, <3>2
    <2> QED
      BY <2>2, <2>3
  <1> QED
    BY <1>4, <1>5

LEMMA StreamSound ==
    ASSUME NEW o, NEW kind, NEW st \in Statement,
           NEW p \in StreamOutcomes(o, kind, st),
           NEW done, kind \notin done, NEW before, NEW after,
           IsPartial(o.cache, Key, Entry),
           Appended(st, before, after),
           Between(o.cache, done, before, after)
    PROVE  Between(p.cache, done \cup {kind}, before, after)
  BY StreamShape, StreamedSound

\* Making new sketches for any columns, once the rows of their kind are in.
LEMMA WarmedSound ==
    ASSUME NEW c, NEW kind \in Kind, NEW st \in Statement, NEW s, NEW ks,
           \A k \in ks : /\ k \notin DOMAIN c
                         /\ k.kind = kind
                         /\ k.input.table = st.table,
           NEW done, kind \in done, NEW before, NEW after,
           Appended(st, before, after),
           Between(c, done, before, after)
    PROVE  Between(Overwritten(c, Warmed(ks, st, s)), done, before, after)
  <1> DEFINE p == Overwritten(c, Warmed(ks, st, s))
  <1> SUFFICES ASSUME NEW k \in DOMAIN p
               PROVE  Sound(p[k].feed,
                            IF k.kind \in done
                            THEN after[k.input.table] ELSE before[k.input.table])
    BY DEF Between
  <1>2. CASE k \in ks
    <2>1. k.kind \in done /\ k.input.table = st.table
      BY <1>2
    <2>2. p[k].feed = Fed(k.kind, k.input.expr, NothingFed,
                          WarmRows(k.kind, k.input.expr, st))
      BY <1>2 DEF Overwritten, Warmed
    <2>3. Sound(p[k].feed, before[st.table] \cup Range(st.rows))
      <3>1. WarmRows(k.kind, k.input.expr, st) \subseteq Range(st.rows)
        BY WarmRowsRows
      <3>2. Range(st.rows) \cap before[st.table] = {}
        BY DEF Appended
      <3>3. NothingFed \in Feed /\ Sound(NothingFed, before[st.table])
        BY NothingFedSound
      <3>4. Sound(Fed(k.kind, k.input.expr, NothingFed,
                      WarmRows(k.kind, k.input.expr, st)),
                  before[st.table] \cup Range(st.rows))
        BY <3>1, <3>2, <3>3, FedSound
      <3> QED
        BY <2>2, <3>4
    <2> QED
      BY <2>1, <2>3 DEF Appended
  <1>3. CASE k \notin ks
    <2>1. k \in DOMAIN c /\ p[k] = c[k]
      BY <1>3 DEF Overwritten, Warmed
    <2> QED
      BY <2>1 DEF Between
  <1> QED
    BY <1>2, <1>3

LEMMA WarmSound ==
    ASSUME NEW o, NEW kind \in Kind, NEW st \in Statement, NEW s,
           NEW done, kind \in done, NEW before, NEW after,
           Appended(st, before, after),
           Between(o.cache, done, before, after)
    PROVE  Between(Prewarmed(o, kind, st, s).cache, done, before, after)
  BY WarmShape, WarmedSound

LEMMA IngestSound ==
    ASSUME NEW outs, NEW kind \in Kind, NEW st \in Statement, NEW s \in Seed,
           NEW done, kind \notin done, NEW before, NEW after,
           Appended(st, before, after),
           \A o \in outs : Typed(o.cache, s) /\ Between(o.cache, done, before, after)
    PROVE  \A o \in Ingest(outs, kind, st, s) :
              Between(o.cache, done \cup {kind}, before, after)
  <1> SUFFICES ASSUME NEW o \in outs, NEW p \in StreamOutcomes(o, kind, st)
               PROVE  Between(Prewarmed(p, kind, st, s).cache,
                              done \cup {kind}, before, after)
    BY DEF Ingest
  <1>1. Between(p.cache, done \cup {kind}, before, after)
    BY StreamSound DEF Typed
  <1> QED
    BY <1>1, WarmSound

\* Sketches that are sound for the tables before an INSERT of new rows are
\* sound for those after it, in every order the sketches can be visited in
\* and wherever a stage gives up.
THEOREM OutcomesSound ==
    ASSUME NEW c, NEW st \in Statement, NEW s \in Seed, Typed(c, s),
           NEW before, NEW after, Appended(st, before, after),
           \A k \in DOMAIN c : Sound(c[k].feed, before[k.input.table])
    PROVE  \A o \in Outcomes(c, st, s) : \A k \in DOMAIN o.cache :
              Sound(o.cache[k].feed, after[k.input.table])
  <1> DEFINE o0 == {[cache |-> c, handled |-> FALSE]}
             o1 == Ingest(o0, "hll", st, s)
             o2 == Ingest(o1, "kll", st, s)
             o3 == Ingest(o2, "freq", st, s)
  <1>1. "hll" \in Kind /\ "kll" \in Kind /\ "freq" \in Kind
    BY DEF Kind
  <1>2. \A o \in o0 : Typed(o.cache, s) /\ Between(o.cache, {}, before, after)
    BY DEF Between
  <1> HIDE DEF o0
  <1>3. \A o \in o1 : /\ Typed(o.cache, s)
                      /\ Between(o.cache, {"hll"}, before, after)
    <2>1. \A o \in o1 : Typed(o.cache, s)
      BY <1>1, <1>2, IngestTyped
    <2>2. \A o \in o1 : Between(o.cache, {} \cup {"hll"}, before, after)
      BY <1>1, <1>2, IngestSound
    <2>3. {} \cup {"hll"} = {"hll"}
      OBVIOUS
    <2> QED
      BY <2>1, <2>2, <2>3
  <1> HIDE DEF o1
  <1>4. \A o \in o2 : /\ Typed(o.cache, s)
                      /\ Between(o.cache, {"hll", "kll"}, before, after)
    <2>1. \A o \in o2 : Typed(o.cache, s)
      BY <1>1, <1>3, IngestTyped
    <2>2. \A o \in o2 : Between(o.cache, {"hll"} \cup {"kll"}, before, after)
      <3>1. "kll" \notin {"hll"}
        OBVIOUS
      <3> QED
        BY <1>1, <1>3, <3>1, IngestSound
    <2>3. {"hll"} \cup {"kll"} = {"hll", "kll"}
      OBVIOUS
    <2> QED
      BY <2>1, <2>2, <2>3
  <1> HIDE DEF o2
  <1>5. \A o \in o3 : Between(o.cache, {"hll", "kll"} \cup {"freq"}, before, after)
    <2>1. "freq" \notin {"hll", "kll"}
      OBVIOUS
    <2> QED
      BY <1>1, <1>4, <2>1, IngestSound
  <1>6. \A o \in o3 : Typed(o.cache, s)
    BY <1>1, <1>4, IngestTyped
  <1>7. \A o \in o3 : \A k \in DOMAIN o.cache :
           Sound(o.cache[k].feed, after[k.input.table])
    <2>1. {"hll", "kll"} \cup {"freq"} = Kind
      BY DEF Kind
    <2>2. \A o \in o3 : \A k \in DOMAIN o.cache : k.kind \in Kind
      BY <1>6 DEF Typed, IsPartial, Key
    <2> QED
      BY <1>5, <2>1, <2>2 DEF Between
  <1>8. Outcomes(c, st, s) = o3
    BY DEF Outcomes, o0, o1, o2
  <1> HIDE DEF o3
  <1> QED
    BY <1>7, <1>8
=============================================================================
