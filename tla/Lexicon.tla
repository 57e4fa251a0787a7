------------------------------ MODULE Lexicon -------------------------------
(***************************************************************************)
(* The life of the lexicon: scripts/build_trusted_words_vi.py writes the   *)
(* list of trusted words, scripts/build_trusted_lexicon_db.py brings it    *)
(* and the JSON resources into a SQLite database, and                      *)
(* load_default_lexicon (stage2_lexicon/__init__.py) reads both.  Each is  *)
(* a process of its own and may stop at any step.                          *)
(***************************************************************************)
EXTENDS TrustedWords, LexiconDb, LexiconLoad

CONSTANTS FileVersions,       \* the raw files there may be: file name -> lines
          ResourceVersions,   \* what the JSON resources may hold
          TornAt,             \* bound: the lines a torn write of the list leaves
          MaxCommits          \* bound: builds of the database that end well

ASSUME BoundsAssumption == TornAt \in Nat /\ MaxCommits \in Nat

\* A raw file is a list of lines and a line a list of characters.
ASSUME FilesAssumption ==
  /\ FileVersions # {}
  /\ \A f \in FileVersions :
       /\ f \in [DOMAIN f -> Range(f)]
       /\ \A name \in DOMAIN f : IsList(f[name]) /\ \A line \in Range(f[name]) : IsList(line)

JsonTables == {"words", "units", "abbreviations", "phrases", "ocr"}

\* resources/lexicons: no word and no unit is there twice.
ASSUME ResourcesAssumption ==
  \A r \in ResourceVersions :
    /\ \A t \in JsonTables \cup {"foreign"} : IsList(r[t])
    /\ \A t \in {"words", "units"} : \A i, j \in DOMAIN r[t] :
         r[t][i].surface = r[t][j].surface => i = j

VARIABLES files,      \* the raw files the list of trusted words was last built from
          resources,  \* the JSON resources
          jsonl,      \* the list: is it there, its lines, does it end inside a letter
          db,         \* the database as other processes see it
          build,      \* the running build: its step, its transaction, what it read
          reader      \* the running load: its phase, mode, next SELECT, and the store

vars == <<files, resources, jsonl, db, build, reader>>

NoBuild == [step |-> "idle", tables |-> EmptyTables, trusted |-> <<>>, tokens |-> <<>>]

NoReader == [phase |-> "idle", mode |-> "json", next |-> 1, store |-> EmptyStore,
             resources |-> <<>>]

\* A checkout without large files has a pointer in place of the database.
Init ==
  /\ files = <<>>
  /\ resources \in ResourceVersions
  /\ jsonl = [there |-> FALSE, lines |-> <<>>, cut |-> FALSE]
  /\ db \in {[file |-> f, tables |-> EmptyTables, commits |-> 0] : f \in {"absent", "pointer"}}
  /\ build = NoBuild
  /\ reader = NoReader

\* Bound on the interleavings: what touches nothing that a load reads is done
\* between loads.  Only a commit may fall between two of a load's SELECTs.
BetweenLoads == reader.phase = "idle"

-----------------------------------------------------------------------------
(***************************************************************************)
(* The list of trusted words.  write_jsonl rewrites the file in place: a   *)
(* process that dies leaves the first lines, and the last one may end in   *)
(* the middle of the bytes of a letter.  A line cut elsewhere does not     *)
(* parse and is as good as absent.                                         *)
(***************************************************************************)
\* Bound on the interleavings: a build sees a change of the list only before
\* its first reading of it or between the two.
ListMayChange == BetweenLoads /\ build.step \in {"idle", "syllables"}

\* What the lists hold, with some of the files missing too.
SomeMissing == UNION {{Restrict(f, there) : there \in SUBSET DOMAIN f} : f \in FileVersions}

RawLists == [f \in SomeMissing |-> AllRaw(f)]

Lists == [f \in SomeMissing |-> build_trusted_lexicon(f)]

TrustedBuild(f) ==
  /\ ListMayChange
  /\ files' = f
  /\ jsonl' = [there |-> TRUE, lines |-> Lists[f], cut |-> FALSE]
  /\ UNCHANGED <<resources, db, build, reader>>

TrustedTorn(f, cut) ==
  /\ ListMayChange
  /\ TornAt < Len(Lists[f])
  /\ files' = f
  /\ jsonl' = [there |-> TRUE, lines |-> IF cut THEN <<>> ELSE SubSeq(Lists[f], 1, TornAt),
                cut |-> cut]
  /\ UNCHANGED <<resources, db, build, reader>>

-----------------------------------------------------------------------------
(***************************************************************************)
(* build_lexicon_db.  The file is opened as it is, the schema is committed *)
(* at once and everything else in one transaction.                         *)
(***************************************************************************)
OpenDb(r) ==
  /\ BetweenLoads
  /\ build.step = "idle"
  /\ db.file # "pointer"
  /\ db.commits < MaxCommits
  /\ resources' = r
  /\ db' = [db EXCEPT !.file = "tables"]
  /\ build' = [NoBuild EXCEPT !.step = "json", !.tables = db.tables]
  /\ UNCHANGED <<files, jsonl, reader>>

\* Fault: the words of the JSON resources are committed before the rest.
PopulateJsonInParts ==
  LET tables == _populate_from_json(build.tables, resources) IN
  /\ BetweenLoads
  /\ build.step = "json"
  /\ build' = [build EXCEPT !.tables = tables, !.step = IF jsonl.there THEN "trusted" ELSE "commit"]
  /\ db' = [db EXCEPT !.tables.words = tables.words]
  /\ UNCHANGED <<files, resources, jsonl, reader>>

PopulateJson ==
  /\ BetweenLoads
  /\ build.step = "json"
  /\ build' = [build EXCEPT !.tables = _populate_from_json(@, resources),
                            !.step = IF jsonl.there THEN "trusted" ELSE "commit"]
  /\ UNCHANGED <<files, resources, jsonl, db, reader>>

PopulateTrusted ==
  /\ BetweenLoads
  /\ build.step = "trusted" /\ ~jsonl.cut
  /\ build' = [build EXCEPT !.tables = _populate_trusted_jsonl(@, jsonl.lines),
                            !.trusted = jsonl.lines, !.step = "syllables"]
  /\ UNCHANGED <<files, resources, jsonl, db, reader>>

\* The list is read a second time.
PopulateSyllables ==
  /\ BetweenLoads
  /\ build.step = "syllables" /\ ~jsonl.cut
  /\ build' = [build EXCEPT !.tables = _populate_syllables(@, jsonl.lines),
                            !.tokens = jsonl.lines, !.step = "commit"]
  /\ UNCHANGED <<files, resources, jsonl, db, reader>>

Commit ==
  /\ build.step = "commit"
  /\ db' = [db EXCEPT !.tables = build.tables, !.commits = @ + 1]
  /\ build' = NoBuild
  /\ UNCHANGED <<files, resources, jsonl, reader>>

\* The process dies, or an unreadable list raises: the transaction is lost.
Crash ==
  /\ BetweenLoads
  /\ build.step # "idle"
  /\ build' = NoBuild
  /\ UNCHANGED <<files, resources, jsonl, db, reader>>

-----------------------------------------------------------------------------
(***************************************************************************)
(* load_default_lexicon(mode, fallback_to_json): "memory" is "hybrid".     *)
(* Each SELECT is a transaction of its own.                                *)
(***************************************************************************)
FromJson == load_json_resources(EmptyStore, resources)

Begin(mode, phase, store) ==
  /\ reader.phase = "idle"
  /\ reader' = [phase |-> phase, mode |-> mode, next |-> 1, store |-> store,
                resources |-> resources]
  /\ UNCHANGED <<files, resources, jsonl, db, build>>

LoadDefault(mode, fallback) ==
  \/ /\ mode = "json" \/ (db.file = "absent" /\ fallback)
     /\ Begin("json", "done", FromJson)
  \/ mode # "json" /\ db.file = "absent" /\ ~fallback /\ Begin(mode, "failed", EmptyStore)
  \/ mode = "sqlite" /\ db.file # "absent" /\ Begin(mode, "reading", EmptyStore)
  \/ mode = "hybrid" /\ db.file # "absent" /\ Begin(mode, "reading", FromJson)

ReadTable ==
  /\ reader.phase = "reading" /\ db.file = "tables"
  /\ LET last == reader.next = Len(Selects) IN
     reader' = [reader EXCEPT !.store = load_sqlite(@, db.tables, Selects[reader.next]),
                              !.next = IF last THEN 1 ELSE @ + 1,
                              !.phase = IF last THEN "done" ELSE @]
  /\ UNCHANGED <<files, resources, jsonl, db, build>>

\* The file is no database, or another process holds it for too long.
ReadFails ==
  /\ reader.phase = "reading"
  /\ db.file = "pointer" \/ build.step = "commit"
  /\ reader' = [NoReader EXCEPT !.phase = "failed"]
  /\ UNCHANGED <<files, resources, jsonl, db, build>>

\* The process that loaded the lexicon ends.
Exit ==
  /\ reader.phase \in {"done", "failed"}
  /\ reader' = NoReader
  /\ UNCHANGED <<files, resources, jsonl, db, build>>

Next ==
  \/ \E f \in FileVersions :
        \/ TrustedBuild(f)
        \/ \E cut \in BOOLEAN : TrustedTorn(f, cut)
  \/ \E r \in ResourceVersions : OpenDb(r)
  \/ PopulateJson \/ PopulateTrusted \/ PopulateSyllables \/ Commit \/ Crash
  \/ \E mode \in {"json", "sqlite", "hybrid"}, fallback \in BOOLEAN : LoadDefault(mode, fallback)
  \/ ReadTable \/ ReadFails \/ Exit

Spec == Init /\ [][Next]_vars

-----------------------------------------------------------------------------
(***************************************************************************)
(* Properties                                                              *)
(***************************************************************************)
\* The schema is committed alone, everything else in one transaction: other
\* processes see an empty database, or one with all that some version of the
\* resources holds, whenever a build dies.
AllOrNothing ==
  \/ \A t \in TableNames : db.tables[t] = <<>>
  \/ \E r \in ResourceVersions :
        \A t \in JsonTables :
           {r[t][i].surface : i \in DOMAIN r[t]} \subseteq Keys(db.tables[t])

\* A store that took in both: what the resources say of a word or a unit
\* stands as it is, and the first answer for a phrase is the built-in one,
\* whatever the database holds under the same id.
BuiltInFirst ==
  reader.phase = "done" /\ reader.mode # "sqlite" =>
    /\ \A i \in DOMAIN reader.resources.words :
          JsonWord(reader.resources.words[i]) \in Range(data(reader.store))
    /\ \A i \in DOMAIN reader.resources.units :
          JsonUnit(reader.resources.units[i]) \in Range(data(reader.store))
    /\ \A i \in DOMAIN reader.resources.phrases :
          lookup_phrase(reader.store, reader.resources.phrases[i].surface)[1].source = "built-in"

\* Grouping by the normalized text (merge_words): no two entries of a list
\* stand for one normalized text, every usable word of every file is in the
\* list under the accentless key it came with, and a file that was missing
\* before takes no word away and makes none less trusted.
MergeLosesNothing ==
  LET entries == Lists[files] IN
  /\ \A i, j \in DOMAIN entries : entries[i].normalized = entries[j].normalized => i = j
  /\ \A rw \in Range(RawLists[files]) :
       \E e \in Range(entries) : e.normalized = rw.normalized /\ e.noTone = rw.noTone
  /\ \A f \in DOMAIN files : \A e \in Range(Lists[Restrict(files, DOMAIN files \ {f})]) :
       \E now \in Range(entries) :
         now.normalized = e.normalized /\ now.confidence >= e.confidence

\* A build that ends well opens the old file and loses no row of it, and has
\* brought in every trusted word it read: as a word it replaces what the
\* resources or an older list said of it, as a phrase it is there; and unless
\* the list changed between its two readings, all lower-case syllables of its
\* words are there too.
BuildKeepsAndAdds ==
  [][db'.commits # db.commits =>
       /\ \A t \in TableNames : Keys(db.tables[t]) \subseteq Keys(db'.tables[t])
       /\ \A e \in Range(build.trusted) :
            /\ e.kind = "phrase" => e.surface \in Keys(db'.tables.phrases)
            /\ e.kind # "phrase" => TrustedRow(e) \in Range(db'.tables.words)
            /\ build.tokens = build.trusted =>
                 \A t \in Range(SyllableTokens(<<e>>)) :
                    <<strip_accents(t), t>> \in Keys(db'.tables.syllables)]_vars

\* However a database is read while another process builds it, no syllable,
\* word or unit has two entries with one id in the store (load_sqlite); and
\* when the load is done its dictionaries and the index built on demand
\* answer alike: an entry is found under its surface and under its accentless
\* key, and nothing is found that is not in the data.
StoreAgrees ==
  LET s == reader.store
      entries == data(s)
  IN  /\ \A i, j \in DOMAIN entries : entries[i].id = entries[j].id => i = j
      /\ reader.phase = "done" =>
           LET index == LexiconIndex(entries) IN
           /\ \A e \in Range(entries) :
                /\ Range(lookup(s, e.surface)) = Range(index.by_surface[e.surface])
                /\ Range(Get(s.syllableIndex, e.noTone) \o Get(s.wordIndex, e.noTone))
                     = Range(index.by_normalized[e.noTone])
                /\ e.kind = "unit" => e \in Range(lookup_unit(s, e.surface))
                /\ e.id[1] # "syllable" => e.surface \in s.wordSurfaces
           /\ s.wordSurfaces \cup DOMAIN s.syllableBySurface = DOMAIN index.by_surface
=============================================================================
