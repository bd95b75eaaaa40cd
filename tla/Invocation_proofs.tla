------------------------- MODULE Invocation_proofs -------------------------
(***************************************************************************)
(* Proofs about Invocation: whatever was saved, a manifest has the macros  *)
(* of the files that were read, and what their calls mean.                 *)
(***************************************************************************)
EXTENDS Invocation, TLAPS

\* The names that the directories may have together
NameMaps == {ns \in [Range(DirOrder) -> UNION {Names[d] : d \in Range(DirOrder)}] :
               \A d \in Range(DirOrder) : ns[d] \in Names[d]}

\* The macros of a manifest are those of the files it lists, for projects of
\* these names
Faithful(man, ns) ==
    /\ DOMAIN man.check.projects = Range(ns)
    /\ DOMAIN man.macros = DOMAIN man.files
    /\ DOMAIN man.files \subseteq Range(FileOrder)
    /\ \A f \in DOMAIN man.files : /\ man.files[f] # None
                                   /\ Texts(man.macros)[f] = parse_file(f, man.files[f], ns[Dir[f]])

\* What the calls of the macros mean is among what they depend on
Covered(man, ns, used) ==
    \A f \in DOMAIN man.macros : \A i \in DOMAIN man.macros[f] :
      LET full == FullParse(man, ns)[f][i].depends_on
      IN /\ full \subseteq man.macros[f][i].depends_on
         /\ ~used => man.macros[f][i].depends_on = full

\* What an invocation knows, r, while it has names, a saved manifest or a
\* manifest of its own
ProcOK(r) ==
    /\ r.phase = "configured" => r.names \in NameMaps
    /\ r.phase = "loading" =>
         /\ r.names \in NameMaps
         /\ DOMAIN r.check.projects = Range(r.names)
         /\ r.old = None \/ Faithful(r.old, r.names)
    /\ r.phase \in {"loaded", "writing", "mixed", "written"} =>
         /\ DOMAIN r = {"phase", "names", "used", "manifest"}
         /\ r.names \in NameMaps
         /\ Faithful(r.manifest, r.names)
         /\ Covered(r.manifest, r.names, r.used)

\* The inductive invariant
IInv ==
    /\ files \in [Range(FileOrder) -> Contents \cup {None}]
    /\ names \in NameMaps
    /\ saved \in {None, Torn} \/ \E ns \in NameMaps : Faithful(saved.manifest, ns)
    /\ proc = [p \in Procs |-> proc[p]]
    /\ \A p \in Procs : ProcOK(proc[p])
-----------------------------------------------------------------------------
(* What is loaded *)

\* The file f as it is parsed
Parsed(fs, ns) == [f \in read_files(fs) |-> parse_file(f, fs[f], ns[Dir[f]])]
\* The macros of the files before their calls are looked up
Before(old, fs, ns) == [f \in read_files(fs) |-> parse_with_cache(old, f, fs[f], ns[Dir[f]])]

\* The macros of one file without what they depend on
Bare(macros) == [i \in DOMAIN macros |-> [macros[i] EXCEPT !.depends_on = {}]]

\* A parsed macro depends on nothing yet (parse_file).
LEMMA ParseText ==
    ASSUME NEW f, NEW contents, NEW package
    PROVE  Bare(parse_file(f, contents, package)) = parse_file(f, contents, package)
  BY DEF parse_file, Bare

\* Looking up the calls changes only what macros depend on (reparse_macros).
LEMMA ReparseTexts ==
    ASSUME NEW macros, NEW root
    PROVE  /\ DOMAIN reparse_macros(macros, root) = DOMAIN macros
           /\ Texts(reparse_macros(macros, root)) = Texts(macros)
  <1> DEFINE new == reparse_macros(macros, root)
  <1>1. /\ DOMAIN new = DOMAIN macros
        /\ \A f \in DOMAIN macros : DOMAIN new[f] = DOMAIN macros[f]
    BY DEF reparse_macros
  <1>2. ASSUME NEW f \in DOMAIN macros, NEW i \in DOMAIN macros[f]
        PROVE  [new[f][i] EXCEPT !.depends_on = {}] = [macros[f][i] EXCEPT !.depends_on = {}]
    BY Zenon DEF reparse_macros
  <1>3. ASSUME NEW f \in DOMAIN macros
        PROVE  Texts(new)[f] = Texts(macros)[f]
    BY <1>1, <1>2 DEF Texts
  <1> QED
    BY <1>1, <1>3 DEF Texts

\* Whether the macros of a file were saved or are parsed, their texts are those
\* of the file (parse_with_cache).
LEMMA BeforeTexts ==
    ASSUME NEW old, NEW fs, NEW ns, old = None \/ Faithful(old, ns)
    PROVE  Texts(Before(old, fs, ns)) = Parsed(fs, ns)
  <1> DEFINE B == Before(old, fs, ns)
             T(f) == Bare(B[f])
             P(f) == parse_file(f, fs[f], ns[Dir[f]])
  <1>1. ASSUME NEW f \in read_files(fs)
        PROVE  T(f) = P(f)
    <2>1. CASE has_file(old, f, fs[f])
      <3>1. B[f] = old.macros[f]
        BY <2>1 DEF Before, parse_with_cache, sanitized_update
      <3>2. old.files[f] = fs[f] /\ Texts(old.macros)[f] = P(f) /\ f \in DOMAIN old.macros
        BY <2>1 DEF has_file, Faithful
      <3>3. Texts(old.macros)[f] = Bare(old.macros[f])
        BY <3>2 DEF Texts, Bare
      <3> QED
        BY <3>1, <3>2, <3>3
    <2>2. CASE ~has_file(old, f, fs[f])
      <3>1. B[f] = P(f)
        BY <2>2 DEF Before, parse_with_cache
      <3>2. Bare(P(f)) = P(f)
        BY ParseText
      <3> HIDE DEF B, P
      <3> QED
        BY <3>1, <3>2
    <2> QED
      BY <2>1, <2>2
  <1>2. DOMAIN B = read_files(fs)
    BY DEF Before
  <1>3. Texts(B) = [f \in read_files(fs) |-> T(f)]
    BY <1>2 DEF Texts, Bare
  <1> HIDE DEF B, T
  <1> QED
    BY <1>1, <1>3 DEF B, Parsed

\* The macros that are loaded have the texts of the files (load).
LEMMA LoadTexts ==
    ASSUME NEW old, NEW fs, NEW ns, old = None \/ Faithful(old, ns)
    PROVE  /\ DOMAIN load(old, fs, ns) = read_files(fs)
           /\ Texts(load(old, fs, ns)) = Parsed(fs, ns)
  <1>1. load(old, fs, ns) = reparse_macros(Before(old, fs, ns), ns[Head(DirOrder)])
    BY DEF load, Before
  <1>2. DOMAIN Before(old, fs, ns) = read_files(fs)
    BY DEF Before
  <1> QED
    BY <1>1, <1>2, ReparseTexts, BeforeTexts

\* What a loaded macro depends on: what it did in the saved manifest, if it
\* comes from there, and what its calls mean among the macros of the files
\* (reparse_macros).
LEMMA LoadDeps ==
    ASSUME NEW old, NEW fs, NEW ns, old = None \/ Faithful(old, ns),
           NEW f \in read_files(fs), NEW i \in DOMAIN load(old, fs, ns)[f]
    PROVE  LET now == Called(InOrder(Parsed(fs, ns)), ns[Head(DirOrder)], Parsed(fs, ns)[f][i])
           IN /\ now \subseteq load(old, fs, ns)[f][i].depends_on
              /\ old = None => load(old, fs, ns)[f][i].depends_on = now
  <1> DEFINE B == Before(old, fs, ns)
             now == Called(InOrder(Parsed(fs, ns)), ns[Head(DirOrder)], Parsed(fs, ns)[f][i])
  <1>1. load(old, fs, ns) = reparse_macros(B, ns[Head(DirOrder)])
    BY DEF load, Before
  <1>2. f \in DOMAIN B /\ Texts(B) = Parsed(fs, ns)
    BY BeforeTexts DEF Before
  <1> HIDE DEF B
  <1>3. i \in DOMAIN B[f]
    BY <1>1, <1>2 DEF reparse_macros
  <1>4. load(old, fs, ns)[f][i] = [B[f][i] EXCEPT !.depends_on = @ \cup now]
    BY <1>1, <1>2, <1>3 DEF reparse_macros
  <1>5. "depends_on" \in DOMAIN B[f][i]
    <2>1. Texts(B)[f][i] = [B[f][i] EXCEPT !.depends_on = {}]
      BY <1>2, <1>3 DEF Texts
    <2>2. DOMAIN Texts(B)[f] = DOMAIN B[f]
      BY <1>2 DEF Texts
    <2>3. Texts(B)[f] = parse_file(f, fs[f], ns[Dir[f]])
      BY <1>2 DEF Parsed
    <2>4. i \in DOMAIN fs[f] /\ "depends_on" \in DOMAIN Texts(B)[f][i]
      BY <1>3, <2>2, <2>3 DEF parse_file
    <2>5. DOMAIN [B[f][i] EXCEPT !.depends_on = {}] = DOMAIN B[f][i]
      OBVIOUS
    <2> QED
      BY <2>1, <2>4, <2>5
  <1>6. load(old, fs, ns)[f][i].depends_on = B[f][i].depends_on \cup now
    BY <1>4, <1>5
  <1>7. old = None => B[f][i].depends_on = {}
    <2> SUFFICES ASSUME old = None PROVE B[f][i].depends_on = {}
      OBVIOUS
    <2>1. B[f] = parse_file(f, fs[f], ns[Dir[f]])
      BY DEF B, Before, parse_with_cache, has_file
    <2>2. i \in DOMAIN fs[f]
      BY <2>1, <1>3 DEF parse_file
    <2> QED
      BY <2>1, <2>2 DEF parse_file
  <1> HIDE DEF now
  <1>8. now \subseteq load(old, fs, ns)[f][i].depends_on /\ (old = None => load(old, fs, ns)[f][i].depends_on = now)
    BY <1>6, <1>7
  <1> QED
    BY <1>8 DEF now

\* A full parse of the files that a manifest lists (FullParse).
LEMMA FullParsed ==
    ASSUME NEW man, NEW ns, NEW fs \in [Range(FileOrder) -> Contents \cup {None}],
           DOMAIN man.files = read_files(fs), \A f \in read_files(fs) : man.files[f] = fs[f]
    PROVE  FullParse(man, ns) = load(None, fs, ns)
  <1>1. [f \in Range(FileOrder) |-> IF f \in DOMAIN man.files THEN man.files[f] ELSE None] = fs
    BY DEF read_files
  <1> QED
    BY <1>1 DEF FullParse

\* The same for a manifest that is faithful: its own texts are those of a full
\* parse.
LEMMA FaithfulFresh ==
    ASSUME NEW man, NEW ns, Faithful(man, ns)
    PROVE  Texts(man.macros) = Texts(FullParse(man, ns))
  <1> DEFINE fs == [f \in Range(FileOrder) |-> IF f \in DOMAIN man.files THEN man.files[f] ELSE None]
  <1>1. read_files(fs) = DOMAIN man.files /\ \A f \in DOMAIN man.files : fs[f] = man.files[f]
    BY DEF read_files, Faithful
  <1>2. Texts(FullParse(man, ns)) = Parsed(fs, ns)
    BY LoadTexts DEF FullParse
  <1>3. Parsed(fs, ns) = [f \in DOMAIN man.files |-> parse_file(f, man.files[f], ns[Dir[f]])]
    BY <1>1 DEF Parsed
  <1>4. DOMAIN Texts(man.macros) = DOMAIN man.files
    BY DEF Texts, Faithful
  <1>5. Texts(man.macros) = [f \in DOMAIN man.files |-> Texts(man.macros)[f]]
    BY <1>4 DEF Texts
  <1> HIDE DEF fs
  <1> QED
    BY <1>2, <1>3, <1>5 DEF Faithful

\* A manifest that was loaded is faithful and covers its calls (Load).
LEMMA LoadedOK ==
    ASSUME NEW old, NEW fs \in [Range(FileOrder) -> Contents \cup {None}], NEW ns, NEW check,
           old = None \/ Faithful(old, ns), DOMAIN check.projects = Range(ns)
    PROVE  LET man == [check |-> check, macros |-> load(old, fs, ns), files |-> [f \in read_files(fs) |-> fs[f]]]
           IN Faithful(man, ns) /\ Covered(man, ns, old # None)
  <1> DEFINE man == [check |-> check, macros |-> load(old, fs, ns), files |-> [f \in read_files(fs) |-> fs[f]]]
  <1>1. /\ man.check = check /\ man.macros = load(old, fs, ns)
        /\ DOMAIN man.files = read_files(fs) /\ \A f \in read_files(fs) : man.files[f] = fs[f]
    OBVIOUS
  <1> HIDE DEF man
  <1>2. read_files(fs) \subseteq Range(FileOrder) /\ \A f \in read_files(fs) : fs[f] # None
    BY DEF read_files
  <1>3. DOMAIN man.macros = read_files(fs) /\ Texts(man.macros) = Parsed(fs, ns)
    BY <1>1, LoadTexts
  <1>4. Faithful(man, ns)
    BY <1>1, <1>2, <1>3 DEF Faithful, Parsed
  <1>5. FullParse(man, ns) = load(None, fs, ns)
    BY <1>1, FullParsed
  <1>6. DOMAIN load(None, fs, ns) = read_files(fs) /\ Texts(load(None, fs, ns)) = Parsed(fs, ns)
    BY LoadTexts
  <1>7. ASSUME NEW f \in read_files(fs), NEW i \in DOMAIN man.macros[f]
        PROVE  /\ load(None, fs, ns)[f][i].depends_on \subseteq man.macros[f][i].depends_on
               /\ old = None => man.macros[f][i].depends_on = load(None, fs, ns)[f][i].depends_on
    <2>1. DOMAIN Texts(man.macros)[f] = DOMAIN man.macros[f]
      BY <1>3 DEF Texts
    <2>2. DOMAIN Texts(load(None, fs, ns))[f] = DOMAIN load(None, fs, ns)[f]
      BY <1>6 DEF Texts
    <2>3. i \in DOMAIN load(None, fs, ns)[f]
      BY <2>1, <2>2, <1>3, <1>6
    <2> DEFINE now == Called(InOrder(Parsed(fs, ns)), ns[Head(DirOrder)], Parsed(fs, ns)[f][i])
    <2>4. load(None, fs, ns)[f][i].depends_on = now
      BY <2>3, LoadDeps
    <2>5. now \subseteq man.macros[f][i].depends_on /\ (old = None => man.macros[f][i].depends_on = now)
      BY <1>1, LoadDeps
    <2> HIDE DEF now
    <2> QED
      BY <2>4, <2>5
  <1>8. Covered(man, ns, old # None)
    BY <1>3, <1>5, <1>7 DEF Covered
  <1> QED
    BY <1>4, <1>8 DEF man
-----------------------------------------------------------------------------
(* What is read of the saved manifest *)

\* A saved manifest that matches was made for projects of the same names, in
\* the same directories (matching_parse_results).
LEMMA MatchingNames ==
    ASSUME NEW ns \in NameMaps, NEW np \in NameMaps, Range(np) \subseteq Range(ns)
    PROVE  np = ns
  <1>1. ASSUME NEW d \in Range(DirOrder)
        PROVE  np[d] = ns[d]
    <2>1. DOMAIN np = Range(DirOrder) /\ DOMAIN ns = Range(DirOrder)
      BY DEF NameMaps
    <2>2. np[d] \in Range(ns)
      BY <2>1 DEF Range
    <2>3. PICK e \in Range(DirOrder) : ns[e] = np[d]
      BY <2>1, <2>2 DEF Range
    <2>4. np[d] \in Names[d] /\ np[d] \in Names[e]
      BY <2>3 DEF NameMaps
    <2>5. d = e
      BY <2>4, NamesAssumption
    <2> QED
      BY <2>3, <2>5
  <1> QED
    BY <1>1 DEF NameMaps

\* What is used of the saved manifest is faithful for the projects of the
\* invocation that reads it (read_saved_manifest).
LEMMA ReadFaithful ==
    ASSUME NEW np \in NameMaps, NEW setting, NEW now, NEW partial, NEW pickle,
           pickle \in {None, Torn} \/ \E ns \in NameMaps : Faithful(pickle.manifest, ns)
    PROVE  LET check == build_manifest_state_check(setting, np, now)
               old == read_saved_manifest(partial, check, pickle)
           IN /\ DOMAIN check.projects = Range(np)
              /\ old = None \/ Faithful(old, np)
  <1> DEFINE check == build_manifest_state_check(setting, np, now)
             old == read_saved_manifest(partial, check, pickle)
  <1>1. DOMAIN check.projects = Range(np)
    BY DEF build_manifest_state_check
  <1> SUFFICES ASSUME old # None PROVE Faithful(old, np)
    BY <1>1
  <1> HIDE DEF check
  <1>2. pickle \notin {None, Torn} /\ old = pickle.manifest /\ matching_parse_results(check, old)
    BY DEF read_saved_manifest
  <1> HIDE DEF old
  <1>3. PICK ns \in NameMaps : Faithful(old, ns)
    BY <1>2
  <1>4. DOMAIN check.projects \subseteq DOMAIN old.check.projects
    BY <1>2 DEF matching_parse_results
  <1>5. Range(np) \subseteq Range(ns)
    BY <1>1, <1>3, <1>4 DEF Faithful
  <1>6. np = ns
    BY <1>5, MatchingNames
  <1> QED
    BY <1>3, <1>6
-----------------------------------------------------------------------------
(* The inductive invariant *)

\* At first every invocation is idle, nothing is saved, and every directory has
\* a name.
LEMMA InitIInv == Init => IInv
  <1> SUFFICES ASSUME Init PROVE IInv
    OBVIOUS
  <1>1. files \in [Range(FileOrder) -> Contents \cup {None}]
    BY FilesAssumption DEF Init
  <1>2. \A d \in Range(DirOrder) : names[d] \in Names[d]
    BY NamesAssumption DEF Init
  <1>3. names \in NameMaps
    BY <1>2 DEF Init, NameMaps
  <1>4. proc = [p \in Procs |-> proc[p]] /\ \A p \in Procs : proc[p].phase = "idle"
    BY DEF Init, Idle
  <1> QED
    BY <1>1, <1>3, <1>4 DEF Init, IInv, ProcOK

\* A step of one invocation leaves the others alone.
LEMMA OneProc ==
    ASSUME IInv, NEW p \in Procs, NEW r, ProcOK(r), proc' = [proc EXCEPT ![p] = r]
    PROVE  proc' = [q \in Procs |-> proc'[q]] /\ \A q \in Procs : ProcOK(proc'[q])
  <1>1. proc = [q \in Procs |-> proc[q]] /\ \A q \in Procs : ProcOK(proc[q])
    BY DEF IInv
  <1>2. DOMAIN proc = Procs
    BY <1>1
  <1>3. proc' = [q \in Procs |-> IF q = p THEN r ELSE proc[q]]
    BY <1>2, Zenon
  <1> QED
    BY <1>1, <1>3

\* Editing a file or renaming a project keeps what invocations know.
LEMMA EditIInv == IInv /\ Edit => IInv'
  <1> SUFFICES ASSUME IInv, Edit PROVE IInv'
    OBVIOUS
  <1>0. UNCHANGED <<saved, proc>>
    BY DEF Edit
  <1>1. files' \in [Range(FileOrder) -> Contents \cup {None}]
    BY DEF IInv, Edit
  <1>2. names' \in NameMaps
    <2>1. CASE names' = names
      BY <2>1 DEF IInv
    <2>2. CASE names' # names
      <3>1. PICK d \in Range(DirOrder) : \E n \in Names[d] : names' = [names EXCEPT ![d] = n]
        BY <2>2 DEF Edit
      <3> QED
        BY <3>1 DEF IInv, NameMaps
    <2> QED
      BY <2>1, <2>2
  <1> QED
    BY <1>0, <1>1, <1>2 DEF IInv

\* Every step of an invocation keeps the invariant.
LEMMA StepIInv ==
    ASSUME IInv, NEW p \in Procs,
           \/ Crash(p) \/ Start(p) \/ ReadSaved(p) \/ Load(p) \/ WriteBegin(p) \/ WriteEnd(p)
           \/ WriteMixed(p) \/ Initialize(p) \/ ExecuteWithHooks(p) \/ Finish(p)
    PROVE  IInv'
  <1> DEFINE Kept == proc' = [q \in Procs |-> proc'[q]] /\ \A q \in Procs : ProcOK(proc'[q])
             SavedOK == saved' \in {None, Torn} \/ \E ns \in NameMaps : Faithful(saved'.manifest, ns)
  <1>0. UNCHANGED <<files, names>>
    BY DEF Crash, Start, ReadSaved, Load, WriteBegin, WriteEnd, WriteMixed, Initialize, ExecuteWithHooks, Finish
  <1>1. ASSUME Kept, SavedOK
        PROVE  IInv'
    BY <1>0, <1>1 DEF IInv
  <1> HIDE DEF Kept
  <1>2. saved' = saved => SavedOK
    BY DEF IInv
  <1> HIDE DEF SavedOK
  <1>3. proc[p] = proc[p] /\ ProcOK(proc[p]) /\ proc = [q \in Procs |-> proc[q]]
    BY DEF IInv
  <1>4. ASSUME NEW code PROVE ProcOK([phase |-> "exit", code |-> code])
    BY DEF ProcOK
  <1>5. ASSUME Raise(p), saved' = saved
        PROVE  IInv'
    BY <1>1, <1>2, <1>4, <1>5, OneProc, Zenon DEF Raise, Kept
  <1>6. CASE Crash(p)
    <2>1. ProcOK(Idle)
      BY DEF ProcOK, Idle
    <2>2. proc' = [proc EXCEPT ![p] = Idle] /\ saved' = saved
      BY <1>6 DEF Crash
    <2> QED
      BY <1>1, <1>2, <2>1, <2>2, OneProc, Zenon DEF Kept
  <1>7. CASE Start(p)
    <2>1. CASE Raise(p)
      BY <1>5, <1>7, <2>1 DEF Start
    <2>2. CASE ~Raise(p)
      <3>1. PICK setting, partial :
              proc' = [proc EXCEPT ![p] = [phase |-> "configured", setting |-> setting, names |-> names, partial |-> partial]]
        BY <1>7, <2>2 DEF Start
      <3>2. ProcOK([phase |-> "configured", setting |-> setting, names |-> names, partial |-> partial])
        BY DEF ProcOK, IInv
      <3>3. saved' = saved
        BY <1>7 DEF Start
      <3> QED
        BY <1>1, <1>2, <3>1, <3>2, <3>3, OneProc, Zenon DEF Kept
    <2> QED
      BY <2>1, <2>2
  <1>8. CASE ReadSaved(p)
    <2> DEFINE check == build_manifest_state_check(proc[p].setting, proc[p].names, names)
               old == read_saved_manifest(proc[p].partial, check, saved)
               r == [phase |-> "loading", names |-> proc[p].names, check |-> check, old |-> old]
    <2>1. proc[p].names \in NameMaps
      BY <1>3, <1>8 DEF ReadSaved, ProcOK
    <2>2. saved \in {None, Torn} \/ \E ns \in NameMaps : Faithful(saved.manifest, ns)
      BY DEF IInv
    <2>3. DOMAIN check.projects = Range(proc[p].names) /\ (old = None \/ Faithful(old, proc[p].names))
      BY <2>1, <2>2, ReadFaithful, Zenon
    <2>4. proc' = [proc EXCEPT ![p] = r] /\ saved' = saved
      BY <1>8 DEF ReadSaved
    <2> HIDE DEF check, old
    <2>5. ProcOK(r)
      BY <2>1, <2>3 DEF ProcOK
    <2> HIDE DEF r
    <2> QED
      BY <1>1, <1>2, <2>4, <2>5, OneProc, Zenon DEF Kept
  <1>9. CASE Load(p)
    <2>1. CASE Raise(p)
      BY <1>5, <1>9, <2>1 DEF Load
    <2>2. CASE ~Raise(p)
      <3> DEFINE man == [check |-> proc[p].check, macros |-> load(proc[p].old, files, proc[p].names),
                         files |-> [f \in read_files(files) |-> files[f]]]
                 r == [phase |-> "loaded", names |-> proc[p].names, used |-> proc[p].old # None, manifest |-> man]
      <3>1. proc' = [proc EXCEPT ![p] = r] /\ saved' = saved
        BY <1>9, <2>2 DEF Load
      <3>2. /\ proc[p].names \in NameMaps
            /\ DOMAIN proc[p].check.projects = Range(proc[p].names)
            /\ proc[p].old = None \/ Faithful(proc[p].old, proc[p].names)
        BY <1>3, <1>9 DEF Load, ProcOK
      <3>3. files \in [Range(FileOrder) -> Contents \cup {None}]
        BY DEF IInv
      <3>4. Faithful(man, proc[p].names) /\ Covered(man, proc[p].names, proc[p].old # None)
        BY <3>2, <3>3, LoadedOK
      <3> HIDE DEF man
      <3>5. ProcOK(r)
        BY <3>2, <3>4, Zenon DEF ProcOK
      <3> HIDE DEF r
      <3> QED
        BY <1>1, <1>2, <3>1, <3>5, OneProc, Zenon DEF Kept
    <2> QED
      BY <2>1, <2>2
  <1>10. ASSUME NEW q \in Procs, HasManifest(q), NEW phase \in {"writing", "mixed", "written"}
         PROVE  ProcOK([proc[q] EXCEPT !.phase = phase])
    <2> DEFINE r == [proc[q] EXCEPT !.phase = phase]
    <2>1. /\ DOMAIN proc[q] = {"phase", "names", "used", "manifest"}
          /\ proc[q].names \in NameMaps
          /\ Faithful(proc[q].manifest, proc[q].names)
          /\ Covered(proc[q].manifest, proc[q].names, proc[q].used)
      BY <1>10 DEF IInv, ProcOK, HasManifest
    <2>2. /\ r.phase = phase /\ DOMAIN r = {"phase", "names", "used", "manifest"}
          /\ r.names = proc[q].names /\ r.used = proc[q].used /\ r.manifest = proc[q].manifest
      BY <2>1
    <2> HIDE DEF r
    <2>3. ProcOK(r)
      BY <2>1, <2>2 DEF ProcOK
    <2> QED
      BY <2>3 DEF r
  <1>11. CASE WriteBegin(p)
    <2>1. proc' = [proc EXCEPT ![p] = [proc[p] EXCEPT !.phase = "writing"]] /\ saved' = Torn
      BY <1>3, <1>11 DEF WriteBegin
    <2>2. HasManifest(p)
      BY <1>11 DEF WriteBegin, HasManifest
    <2>3. ProcOK([proc[p] EXCEPT !.phase = "writing"])
      BY <1>10, <2>2, Zenon
    <2>4. Kept
      BY <2>1, <2>3, OneProc, Zenon DEF Kept
    <2> QED
      BY <1>1, <2>1, <2>4 DEF SavedOK
  <1>12. CASE WriteEnd(p)
    <2>1. ProcOK([proc[p] EXCEPT !.phase = "written"])
      BY <1>10, <1>12, Zenon DEF WriteEnd, HasManifest
    <2>2. ASSUME NEW q \in Procs, proc[q].phase = "writing" PROVE ProcOK([proc[q] EXCEPT !.phase = "mixed"])
      BY <1>10, <2>2, Zenon DEF HasManifest
    <2>3. ASSUME NEW q \in Procs PROVE ProcOK(proc[q])
      BY DEF IInv
    <2>4. proc' = [q \in Procs |->
                     IF q = p THEN [proc[p] EXCEPT !.phase = "written"]
                     ELSE IF proc[q].phase = "writing" THEN [proc[q] EXCEPT !.phase = "mixed"] ELSE proc[q]]
      BY <1>12 DEF WriteEnd
    <2>5. Kept
      BY <2>1, <2>2, <2>3, <2>4 DEF Kept
    <2>6. proc[p].names \in NameMaps /\ Faithful(proc[p].manifest, proc[p].names)
      BY <1>3, <1>12 DEF WriteEnd, ProcOK
    <2>7. saved' = Torn \/ saved'.manifest = proc[p].manifest
      BY <1>12 DEF WriteEnd
    <2>8. SavedOK
      BY <2>6, <2>7 DEF SavedOK
    <2> QED
      BY <1>1, <2>5, <2>8
  <1>13. CASE WriteMixed(p)
    <2>1. proc' = [proc EXCEPT ![p] = [proc[p] EXCEPT !.phase = "written"]] /\ saved' = Torn
      BY <1>3, <1>13 DEF WriteMixed
    <2>2. ProcOK([proc[p] EXCEPT !.phase = "written"])
      BY <1>10, <1>13, Zenon DEF WriteMixed, HasManifest
    <2>3. Kept
      BY <2>1, <2>2, OneProc, Zenon DEF Kept
    <2> QED
      BY <1>1, <2>1, <2>3 DEF SavedOK
  <1>14. ASSUME NEW phase \in {"ran", "ready"}, NEW results PROVE ProcOK([phase |-> phase, results |-> results])
    BY DEF ProcOK
  <1>15. CASE Initialize(p) \/ ExecuteWithHooks(p)
    <2>1. CASE Raise(p)
      BY <1>5, <1>15, <2>1 DEF Initialize, ExecuteWithHooks
    <2>2. CASE ~Raise(p)
      <3>0. PICK phase \in {"ran", "ready"} :
              \E results : proc' = [proc EXCEPT ![p] = [phase |-> phase, results |-> results]]
        BY <1>15, <2>2 DEF Initialize, ExecuteWithHooks
      <3>1. PICK results : proc' = [proc EXCEPT ![p] = [phase |-> phase, results |-> results]]
        BY <3>0
      <3>2. saved' = saved
        BY <1>15 DEF Initialize, ExecuteWithHooks
      <3> QED
        BY <1>1, <1>2, <1>14, <3>1, <3>2, OneProc, Zenon DEF Kept
    <2> QED
      BY <2>1, <2>2
  <1>16. CASE Finish(p)
    <2>1. PICK code : proc' = [proc EXCEPT ![p] = [phase |-> "exit", code |-> code]] /\ saved' = saved
      BY <1>16, Zenon DEF Finish
    <2> QED
      BY <1>1, <1>2, <1>4, <2>1, OneProc, Zenon DEF Kept
  <1> QED
    BY <1>6, <1>7, <1>8, <1>9, <1>11, <1>12, <1>13, <1>15, <1>16
-----------------------------------------------------------------------------
(* The theorems *)

\* The invariant holds in every state.
THEOREM Invariance == Spec => []IInv
  <1>1. IInv /\ UNCHANGED vars => IInv'
    BY DEF IInv, ProcOK, vars
  <1>2. IInv /\ Next => IInv'
    BY EditIInv, StepIInv DEF Next
  <1>3. IInv /\ [Next]_vars => IInv'
    BY <1>1, <1>2
  <1> QED
    BY <1>3, InitIInv, PTL DEF Spec

\* For any files, projects and number of invocations, and however they are
\* edited, killed or run at the same time: the macros of every manifest that is
\* loaded are those of the files that were read (parse_with_cache,
\* read_saved_manifest).
THEOREM MacrosAreFresh == Spec => []FreshMacros
  <1>1. IInv => FreshMacros
    <2> SUFFICES ASSUME IInv, NEW p \in Procs, HasManifest(p)
                 PROVE  Texts(proc[p].manifest.macros) = Texts(FullParse(proc[p].manifest, proc[p].names))
      BY DEF FreshMacros
    <2>1. Faithful(proc[p].manifest, proc[p].names)
      BY DEF IInv, ProcOK, HasManifest
    <2> QED
      BY <2>1, FaithfulFresh
  <1> QED
    BY <1>1, Invariance, PTL

\* ... and each macro depends at least on what its calls mean among the macros
\* of that manifest, and on nothing else when no saved manifest was used
\* (reparse_macros).
THEOREM DependenciesAreCovered == Spec => []DepsCovered
  <1>1. IInv => DepsCovered
    BY DEF IInv, ProcOK, HasManifest, DepsCovered, Covered
  <1> QED
    BY <1>1, Invariance, PTL
=============================================================================
