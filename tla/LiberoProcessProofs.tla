------------------------ MODULE LiberoProcessProofs ------------------------
(***************************************************************************)
(* Proofs about LiberoProcess and its parts, RenderPatch and WarpKernels,  *)
(* for any number of kills and reinstallations, any versions, block_dims   *)
(* and hashes.                                                             *)
(***************************************************************************)
EXTENDS LiberoProcess, TLAPS

-----------------------------------------------------------------------------
(* Plans and texts. *)

\* The entries of the plan.
LEMMA PlanFacts ==
  /\ Len(Plan) = 10 /\ AfterHaze = 7
  /\ Plan[1] = Branch /\ Plan[2] = ShadowEdit /\ Plan[3] = HazeGate
  /\ Plan[4] = HazeTypes /\ Plan[5] = HazeIo /\ Plan[6] = HazeRender
  /\ Plan[7] = CubeFind /\ Plan[8] = CubeTypes /\ Plan[9] = CubeIo
  /\ Plan[10] = CubeRender
BY DEF Plan, LegacyPlan, CubePlan, AfterHaze

\* The entry with a number.
LEMMA WhichEntry ==
  ASSUME NEW n \in 1 .. Len(Plan)
  PROVE  \/ n = 1 /\ Plan[n] = Branch
         \/ n = 2 /\ Plan[n] = ShadowEdit
         \/ n = 3 /\ Plan[n] = HazeGate
         \/ n = 4 /\ Plan[n] = HazeTypes
         \/ n = 5 /\ Plan[n] = HazeIo
         \/ n = 6 /\ Plan[n] = HazeRender
         \/ n = 7 /\ Plan[n] = CubeFind
         \/ n = 8 /\ Plan[n] = CubeTypes
         \/ n = 9 /\ Plan[n] = CubeIo
         \/ n = 10 /\ Plan[n] = CubeRender
<1>1. \/ n = 1 \/ n = 2 \/ n = 3 \/ n = 4 \/ n = 5 \/ n = 6 \/ n = 7 \/ n = 8
      \/ n = 9 \/ n = 10
  BY PlanFacts
<1> QED
  BY <1>1, PlanFacts

\* The entries that the plan is made of.
Entries == {Branch, ShadowEdit, HazeGate, HazeTypes, HazeIo, HazeRender,
            CubeFind, CubeTypes, CubeIo, CubeRender}

\* Every entry is about one of the files and one of the edits.
LEMMA EntryFacts ==
  ASSUME NEW n \in 1 .. Len(Plan)
  PROVE  Plan[n] \in Entries /\ Plan[n].file \in Files /\ Plan[n].edit \in Edits
<1>1. Plan[n] \in Entries
  BY WhichEntry DEF Entries
<1>2. \A s \in Entries : s.file \in Files /\ s.edit \in Edits
  BY DEF Entries, Branch, ShadowEdit, HazeGate, HazeTypes, HazeIo, HazeRender,
         CubeFind, CubeTypes, CubeIo, CubeRender, Entry, Files, Edits
<1> QED
  BY <1>1, <1>2

\* What is known of the anchors of the installed version.
LEMMA VersionFacts ==
  ASSUME version \in Versions
  PROVE  /\ version.legacy \in BOOLEAN /\ "cube" \in version.offers
         /\ version.legacy => version.offers = Edits
BY VersionAssumption

\* A mark is there, or it is not and its anchor is, or the text is torn; an edit
\* puts its mark once more and leaves the others.
LEMMA TextFacts ==
  ASSUME NEW x \in Texts, NEW e \in Edits
  PROVE  /\ Apply(x, e) \in Texts
         /\ x = Torn => Apply(x, e) = Torn
         /\ x # Torn => /\ Apply(x, e) # Torn
                        /\ x[e] \in Counts
                        /\ Has(Apply(x, e), e)
                        /\ x[e] = 0 => Apply(x, e)[e] = 1
                        /\ \A d \in Edits \ {e} : Apply(x, e)[d] = x[d]
BY RenderAssumption DEF Apply, Texts, Has, Counts

\* What a torn text lacks, and what the marks of another text mean.
LEMMA MarkFacts ==
  ASSUME NEW x \in Texts, NEW e \in Edits
  PROVE  /\ ~(Has(x, e) /\ Anchored(x, e))
         /\ Has(x, e) \/ Anchored(x, e) => x # Torn
         /\ e \in version.offers /\ x # Torn => Has(x, e) \/ Anchored(x, e)
BY DEF Has, Anchored, Texts, Counts

\* What the code makes of the text at each entry.
LEMMA DecisionFacts ==
  ASSUME NEW x
  PROVE  /\ Decision(Branch, x) =
              IF ~version.legacy /\ x # Torn THEN "nohaze" ELSE "next"
         /\ Decision(ShadowEdit, x) = IF Anchored(x, "shadow") THEN "edit" ELSE "next"
         /\ Decision(HazeGate, x) = IF Anchored(x, "haze") THEN "next" ELSE "nohaze"
         /\ Decision(HazeTypes, x) = IF x # Torn /\ "haze" \in version.offers
                                     THEN "edit" ELSE "raise"
         /\ Decision(HazeIo, x) = IF Anchored(x, "haze") THEN "edit" ELSE "raise"
         /\ Decision(HazeRender, x) = "edit"
         /\ Decision(CubeFind, x) = IF x # Torn THEN "next" ELSE "raise"
         /\ \A s \in {CubeTypes, CubeIo, CubeRender} :
              Decision(s, x) = IF Has(x, "cube") THEN "next"
                               ELSE IF Anchored(x, "cube") THEN "edit" ELSE "raise"
<1>1. \A s \in {CubeTypes, CubeIo, CubeRender} :
        s.do = "unlessMarked" /\ s.edit = "cube"
  BY DEF CubeTypes, CubeIo, CubeRender, Entry
<1>2. ASSUME NEW s \in {CubeTypes, CubeIo, CubeRender}
      PROVE  Decision(s, x) = IF Has(x, "cube") THEN "next"
                              ELSE IF Anchored(x, "cube") THEN "edit" ELSE "raise"
  BY <1>1 DEF Decision, EditOrRaise
<1> QED
  BY <1>2 DEF Decision, Branch, ShadowEdit, HazeGate, HazeTypes, HazeIo,
              HazeRender, CubeFind, Entry, Findable, HasParameter, EditOrRaise

\* The files and edits of the entries, and the texts they write.
LEMMA EditedFacts ==
  ASSUME NEW x
  PROVE  /\ Branch.file = "io" /\ ShadowEdit.file = "render"
         /\ HazeGate.file = "render"
         /\ HazeTypes.file = "types" /\ HazeIo.file = "io"
         /\ HazeRender.file = "render" /\ CubeFind.file = "io"
         /\ CubeTypes.file = "types" /\ CubeIo.file = "io"
         /\ CubeRender.file = "render"
         /\ ShadowEdit.edit = "shadow" /\ HazeGate.edit = "haze"
         /\ HazeTypes.edit = "haze" /\ HazeIo.edit = "haze"
         /\ HazeRender.edit = "haze" /\ CubeFind.edit = "cube"
         /\ CubeTypes.edit = "cube" /\ CubeIo.edit = "cube"
         /\ CubeRender.edit = "cube"
         /\ Edited(HazeTypes, x) = Apply(x, "haze")
         /\ Edited(HazeRender, x) =
              IF Anchored(x, "haze") THEN Apply(x, "haze") ELSE x
         /\ \A s \in {ShadowEdit, HazeIo, CubeTypes, CubeIo, CubeRender} :
              Anchored(x, s.edit) => Edited(s, x) = Apply(x, s.edit)
BY DEF Edited, Survives, Branch, ShadowEdit, HazeGate, HazeTypes, HazeIo,
       HazeRender, CubeFind, CubeTypes, CubeIo, CubeRender, Entry

\* Only HazeRender writes a text that may be torn.
LEMMA EditedWhole ==
  ASSUME NEW n \in 1 .. Len(Plan), NEW x \in Texts,
         Decision(Plan[n], x) = "edit", Plan[n].do # "rewrite"
  PROVE  Edited(Plan[n], x) # Torn
<1>1. HazeRender.do = "rewrite"
  BY DEF HazeRender, Entry
<1>2. x # Torn
  BY <1>1, WhichEntry, DecisionFacts DEF Anchored
<1> QED
  BY <1>2, EntryFacts, TextFacts DEF Edited

-----------------------------------------------------------------------------
(* What sources a call may have before it at entry n of its plan. *)

\* Marks that are there because an earlier entry, or an earlier run, put them
\* there.  A torn text may have had any.  The current layout goes through the
\* legacy edits only while the file that tells the layout is torn.
Marked(fs, n) ==
  /\ ~version.legacy =>
       /\ fs["io"] # Torn => \A f \in Files : ~Twice(fs[f])
       /\ n \in 2 .. 6 => fs["io"] = Torn
  /\ version.legacy =>
       /\ Has(fs["render"], "haze") =>
            ~Anchored(fs["types"], "haze") /\ ~Anchored(fs["io"], "haze")
       /\ n > 2 => ~Anchored(fs["render"], "shadow")
       /\ n \in {4, 5} => Anchored(fs["render"], "haze")
       /\ n \in {5, 6} => ~Anchored(fs["types"], "haze")
       /\ n = 6 => ~Anchored(fs["io"], "haze")
       /\ n > 6 => ~Anchored(fs["render"], "haze")
  /\ n > 8 => Has(fs["types"], "cube")
  /\ n > 9 => Has(fs["io"], "cube")
  /\ n > 10 => Has(fs["render"], "cube")

\* After an edit at n the sources are those a call may have at n + 1.
LEMMA EditMarked ==
  ASSUME NEW fs \in [Files -> Texts], NEW n \in 1 .. Len(Plan),
         Marked(fs, n), Decision(Plan[n], fs[Plan[n].file]) = "edit",
         NEW gs,
         gs = [fs EXCEPT ![Plan[n].file] = Edited(Plan[n], fs[Plan[n].file])]
  PROVE  Marked(gs, n + 1)
<1> DEFINE x == fs[Plan[n].file]
<1>1. /\ fs["types"] \in Texts /\ fs["io"] \in Texts /\ fs["render"] \in Texts
      /\ Files = {"types", "io", "render"}
  BY DEF Files
<1>2. CASE n = 2 /\ Plan[n] = ShadowEdit
  <2>1. Anchored(fs["render"], "shadow")
    BY <1>2, DecisionFacts, EditedFacts
  <2>2. gs = [fs EXCEPT !["render"] = Apply(fs["render"], "shadow")]
    BY <1>2, <2>1, EditedFacts
  <2> QED
    BY <1>1, <1>2, <2>1, <2>2, TextFacts DEF Marked, Edits, Has, Anchored
<1>3. CASE n = 4 /\ Plan[n] = HazeTypes
  <2>1. fs["types"] # Torn
    BY <1>3, DecisionFacts, EditedFacts
  <2>2. gs = [fs EXCEPT !["types"] = Apply(fs["types"], "haze")]
    BY <1>3, <2>1, EditedFacts
  <2> QED
    BY <1>1, <1>3, <2>1, <2>2, TextFacts DEF Marked, Edits, Has, Anchored
<1>4. CASE n = 5 /\ Plan[n] = HazeIo
  <2>1. Anchored(fs["io"], "haze")
    BY <1>4, DecisionFacts, EditedFacts
  <2>2. gs = [fs EXCEPT !["io"] = Apply(fs["io"], "haze")]
    BY <1>4, <2>1, EditedFacts
  <2> QED
    BY <1>1, <1>4, <2>1, <2>2, TextFacts DEF Marked, Edits, Has, Anchored
<1>5. CASE n = 6 /\ Plan[n] = HazeRender
  <2>1. CASE Anchored(fs["render"], "haze")
    <3>1. gs = [fs EXCEPT !["render"] = Apply(fs["render"], "haze")]
      BY <1>5, <2>1, EditedFacts
    <3> QED
      BY <1>1, <1>5, <2>1, <3>1, TextFacts DEF Marked, Edits, Has, Anchored
  <2>2. CASE ~Anchored(fs["render"], "haze")
    <3>1. gs = [fs EXCEPT !["render"] = fs["render"]]
      BY <1>5, <2>2, EditedFacts
    <3> QED
      BY <1>1, <1>5, <2>2, <3>1 DEF Marked, Has, Anchored
  <2> QED
    BY <2>1, <2>2
<1>6. CASE n = 8 /\ Plan[n] = CubeTypes
  <2>1. Anchored(fs["types"], "cube")
    BY <1>6, DecisionFacts, EditedFacts
  <2>2. gs = [fs EXCEPT !["types"] = Apply(fs["types"], "cube")]
    BY <1>6, <2>1, EditedFacts
  <2> QED
    BY <1>1, <1>6, <2>1, <2>2, TextFacts
       DEF Marked, Edits, Has, Anchored, Twice
<1>7. CASE n = 9 /\ Plan[n] = CubeIo
  <2>1. Anchored(fs["io"], "cube")
    BY <1>7, DecisionFacts, EditedFacts
  <2>2. gs = [fs EXCEPT !["io"] = Apply(fs["io"], "cube")]
    BY <1>7, <2>1, EditedFacts
  <2> QED
    BY <1>1, <1>7, <2>1, <2>2, TextFacts
       DEF Marked, Edits, Has, Anchored, Twice
<1>8. CASE n = 10 /\ Plan[n] = CubeRender
  <2>1. Anchored(fs["render"], "cube")
    BY <1>8, DecisionFacts, EditedFacts
  <2>2. gs = [fs EXCEPT !["render"] = Apply(fs["render"], "cube")]
    BY <1>8, <2>1, EditedFacts
  <2> QED
    BY <1>1, <1>8, <2>1, <2>2, TextFacts
       DEF Marked, Edits, Has, Anchored, Twice
<1>9. Plan[n] # Branch /\ Plan[n] # HazeGate /\ Plan[n] # CubeFind
  BY DecisionFacts
<1> QED
  BY <1>2, <1>3, <1>4, <1>5, <1>6, <1>7, <1>8, <1>9, WhichEntry

\* Where nothing has to be edited the call goes on with the same sources.
LEMMA NextMarked ==
  ASSUME NEW fs \in [Files -> Texts], NEW n \in 1 .. Len(Plan), Marked(fs, n)
  PROVE  /\ Decision(Plan[n], fs[Plan[n].file]) = "next" => Marked(fs, n + 1)
         /\ Decision(Plan[n], fs[Plan[n].file]) = "nohaze" =>
              Marked(fs, AfterHaze)
<1>1. CASE n = 1 /\ Plan[n] = Branch
  BY <1>1, DecisionFacts, EditedFacts, PlanFacts DEF Marked
<1>2. CASE n = 2 /\ Plan[n] = ShadowEdit
  BY <1>2, DecisionFacts, EditedFacts DEF Marked
<1>3. CASE n = 3 /\ Plan[n] = HazeGate
  BY <1>3, DecisionFacts, EditedFacts, PlanFacts DEF Marked
<1>4. CASE Plan[n] = HazeTypes \/ Plan[n] = HazeIo \/ Plan[n] = HazeRender
  BY <1>4, DecisionFacts, EditedFacts
<1>5. CASE n = 7 /\ Plan[n] = CubeFind
  BY <1>5, DecisionFacts, EditedFacts DEF Marked
<1>6. CASE n = 8 /\ Plan[n] = CubeTypes
  BY <1>6, DecisionFacts, EditedFacts DEF Marked
<1>7. CASE n = 9 /\ Plan[n] = CubeIo
  BY <1>7, DecisionFacts, EditedFacts DEF Marked
<1>8. CASE n = 10 /\ Plan[n] = CubeRender
  BY <1>8, DecisionFacts, EditedFacts DEF Marked
<1> QED
  BY <1>1, <1>2, <1>3, <1>4, <1>5, <1>6, <1>7, <1>8, WhichEntry

\* Truncating the file of an entry that edits takes no mark away that counts
\* there.
LEMMA TornMarked ==
  ASSUME NEW fs \in [Files -> Texts], NEW n \in 1 .. Len(Plan), Marked(fs, n)
  PROVE  Marked([fs EXCEPT ![Plan[n].file] = Torn], n)
<1>1. Files = {"types", "io", "render"}
  BY DEF Files
<1>2. \A e : ~Has(Torn, e) /\ ~Anchored(Torn, e) /\ ~Twice(Torn)
  BY DEF Has, Anchored, Twice
<1> QED
  BY <1>1, <1>2, WhichEntry, EditedFacts DEF Marked

\* The next call, or the next run, may have before it what this one leaves.
LEMMA MarkedAgain ==
  ASSUME NEW fs, NEW n \in Nat \ {0}, Marked(fs, n)
  PROVE  Marked(fs, 1)
BY DEF Marked

\* Sources that no call can complete any more: a source is torn, or the fields
\* of the haze are passed on in io and not yet used in render, where the edit of
\* io raises.
Doomed(fs, n) ==
  \/ \E f \in Files : fs[f] = Torn
  \/ /\ version.legacy /\ n <= 5
     /\ Has(fs["io"], "haze") /\ Anchored(fs["render"], "haze")

\* A call raises only on such sources.
LEMMA RaiseDoomed ==
  ASSUME version \in Versions,
         NEW fs \in [Files -> Texts], NEW n \in 1 .. Len(Plan), Marked(fs, n),
         Decision(Plan[n], fs[Plan[n].file]) = "raise"
  PROVE  Doomed(fs, 1)
<1>1. /\ fs["types"] \in Texts /\ fs["io"] \in Texts /\ fs["render"] \in Texts
      /\ Files = {"types", "io", "render"}
      /\ "cube" \in Edits /\ "haze" \in Edits
  BY DEF Files, Edits
<1>2. CASE n = 4 /\ Plan[n] = HazeTypes
  <2>1. CASE version.legacy
    BY <1>1, <1>2, <2>1, VersionFacts, DecisionFacts, EditedFacts DEF Doomed
  <2>2. CASE ~version.legacy
    BY <1>1, <1>2, <2>2 DEF Doomed, Marked
  <2> QED
    BY <2>1, <2>2
<1>3. CASE n = 5 /\ Plan[n] = HazeIo
  <2>1. CASE version.legacy
    <3>1. ~Anchored(fs["io"], "haze") /\ Anchored(fs["render"], "haze")
      BY <1>3, <2>1, DecisionFacts, EditedFacts DEF Marked
    <3> QED
      BY <1>1, <1>3, <2>1, <3>1, VersionFacts, MarkFacts DEF Doomed
  <2>2. CASE ~version.legacy
    BY <1>1, <1>3, <2>2 DEF Doomed, Marked
  <2> QED
    BY <2>1, <2>2
<1>4. CASE Plan[n] = CubeFind
  BY <1>1, <1>4, DecisionFacts, EditedFacts DEF Doomed
<1>5. ASSUME NEW s \in {CubeTypes, CubeIo, CubeRender}, Plan[n] = s
      PROVE  Doomed(fs, 1)
  <2>1. s.file \in Files /\ fs[s.file] \in Texts
    BY <1>1, <1>5, EditedFacts
  <2>2. ~Has(fs[s.file], "cube") /\ ~Anchored(fs[s.file], "cube")
    BY <1>5, DecisionFacts
  <2> QED
    BY <1>1, <2>1, <2>2, VersionFacts, MarkFacts DEF Doomed
<1> QED
  BY <1>2, <1>3, <1>4, <1>5, WhichEntry, DecisionFacts

\* They stay what they are, whatever a call makes of them before it raises.
LEMMA DoomedStays ==
  ASSUME NEW fs \in [Files -> Texts], NEW n \in 1 .. Len(Plan), Doomed(fs, n)
  PROVE  /\ Decision(Plan[n], fs[Plan[n].file]) = "edit" =>
              Doomed([fs EXCEPT ![Plan[n].file] =
                        Edited(Plan[n], fs[Plan[n].file])], n + 1)
         /\ Decision(Plan[n], fs[Plan[n].file]) = "next" => Doomed(fs, n + 1)
         /\ Decision(Plan[n], fs[Plan[n].file]) = "nohaze" =>
              Doomed(fs, AfterHaze)
<1> DEFINE s == Plan[n]
           x == fs[s.file]
           gs == [fs EXCEPT ![s.file] = Edited(s, x)]
<1>1. /\ fs["types"] \in Texts /\ fs["io"] \in Texts /\ fs["render"] \in Texts
      /\ Files = {"types", "io", "render"}
      /\ "cube" \in Edits /\ "haze" \in Edits /\ "shadow" \in Edits
      /\ s.file \in Files
  BY EntryFacts DEF Files, Edits
<1>2. CASE \E f \in Files : fs[f] = Torn
  <2>1. PICK f \in Files : fs[f] = Torn
    BY <1>2
  <2>2. \A e \in Edits : ~Anchored(Torn, e) /\ ~Has(Torn, e)
    BY DEF Anchored, Has
  <2>3. ASSUME Decision(s, x) = "edit" PROVE gs[f] = Torn
    <3>1. CASE f # s.file
      BY <2>1, <3>1
    <3>2. CASE f = s.file
      <4>1. x = Torn
        BY <2>1, <3>2
      <4>2. s = HazeRender
        BY <2>2, <2>3, <4>1, WhichEntry, DecisionFacts, <1>1
      <4> QED
        BY <1>1, <2>2, <3>2, <4>1, <4>2, EditedFacts
    <3> QED
      BY <3>1, <3>2
  <2> QED
    BY <2>1, <2>3 DEF Doomed
<1>3. CASE /\ version.legacy /\ n <= 5
           /\ Has(fs["io"], "haze") /\ Anchored(fs["render"], "haze")
  <2>1. CASE n = 1 /\ s = Branch
    BY <1>3, <2>1, DecisionFacts DEF Doomed
  <2>2. CASE n = 2 /\ s = ShadowEdit
    <3>1. Decision(s, x) = "edit" =>
            gs = [fs EXCEPT !["render"] = Apply(fs["render"], "shadow")]
      <4>1. s.file = "render" /\ s.edit = "shadow"
        BY <2>2, EditedFacts
      <4>2. ASSUME Decision(s, x) = "edit" PROVE Anchored(x, "shadow")
        BY <2>2, <4>2, DecisionFacts
      <4>3. Anchored(x, "shadow") => Edited(s, x) = Apply(x, "shadow")
        BY <2>2, <4>1, EditedFacts
      <4> QED
        BY <4>1, <4>2, <4>3
    <3>2. Decision(s, x) # "nohaze"
      BY <2>2, DecisionFacts
    <3> QED
      BY <1>1, <1>3, <2>2, <3>1, <3>2, TextFacts
         DEF Doomed, Edits, Has, Anchored
  <2>3. CASE n = 3 /\ s = HazeGate
    BY <1>3, <2>3, DecisionFacts, EditedFacts DEF Doomed
  <2>4. CASE n = 4 /\ s = HazeTypes
    <3>1. Decision(s, x) = "edit" =>
            gs = [fs EXCEPT !["types"] = Apply(fs["types"], "haze")]
      <4>1. s.file = "types" /\ Edited(s, x) = Apply(x, "haze")
        BY <2>4, EditedFacts
      <4> QED
        BY <4>1
    <3> QED
      BY <1>1, <1>3, <2>4, <3>1, DecisionFacts DEF Doomed
  <2>5. CASE n = 5 /\ s = HazeIo
    <3>1. ~Anchored(fs["io"], "haze")
      BY <1>1, <1>3, MarkFacts
    <3> QED
      BY <2>5, <3>1, DecisionFacts, EditedFacts
  <2> QED
    BY <1>3, <2>1, <2>2, <2>3, <2>4, <2>5, PlanFacts
<1> QED
  BY <1>2, <1>3 DEF Doomed

\* Every edit the installed version needs, in sources fs.
AllEdits(fs) == \A i \in Needed : Has(fs[Plan[i].file], Plan[i].edit)

\* The entries that the installed version needs.
LEMMA NeededFacts ==
  /\ Needed \subseteq 1 .. Len(Plan)
  /\ \A i \in Needed : version.legacy \/ i \notin 1 .. 6
  /\ 1 \notin Needed
  /\ \A i \in 1 .. Len(Plan) :
       i \notin Needed => i = 1 \/ (~version.legacy /\ i \in 2 .. 6)
BY PlanFacts DEF Needed

\* Behind the last entry every edit is there, and no source is torn.
LEMMA EndComplete ==
  ASSUME version \in Versions,
         NEW fs \in [Files -> Texts], Marked(fs, Len(Plan) + 1)
  PROVE  AllEdits(fs) /\ ~Doomed(fs, Len(Plan) + 1) /\ ~Doomed(fs, AfterHaze)
<1>1. /\ fs["types"] \in Texts /\ fs["io"] \in Texts /\ fs["render"] \in Texts
      /\ Files = {"types", "io", "render"}
      /\ "cube" \in Edits /\ "haze" \in Edits /\ "shadow" \in Edits
  BY DEF Files, Edits
<1>2. Len(Plan) + 1 = 11
  BY PlanFacts
<1>3. /\ Has(fs["types"], "cube") /\ Has(fs["io"], "cube")
      /\ Has(fs["render"], "cube")
  BY <1>2 DEF Marked
<1>4. \A f \in Files : fs[f] # Torn
  BY <1>1, <1>3, MarkFacts
<1>5. version.legacy => Has(fs["render"], "shadow") /\ Has(fs["render"], "haze")
  BY <1>1, <1>2, <1>4, VersionFacts, MarkFacts DEF Marked
<1>6. version.legacy => Has(fs["types"], "haze") /\ Has(fs["io"], "haze")
  BY <1>1, <1>2, <1>4, <1>5, VersionFacts, MarkFacts DEF Marked
<1>7. ASSUME NEW i \in Needed PROVE Has(fs[Plan[i].file], Plan[i].edit)
  BY <1>3, <1>5, <1>6, NeededFacts, WhichEntry, EditedFacts
<1> QED
  BY <1>2, <1>4, <1>7, PlanFacts DEF Doomed, AllEdits

\* The entries where a call is not between the edits of the haze: on the current
\* layout those a call comes to while it finds the parameter.
Outside(n) == n \notin IF version.legacy THEN 4 .. 6 ELSE 2 .. 6

\* A call that finds every edit skips them all.
LEMMA CompleteSkips ==
  ASSUME NEW fs \in [Files -> Texts], NEW n \in 1 .. Len(Plan), AllEdits(fs),
         Outside(n)
  PROVE  /\ Decision(Plan[n], fs[Plan[n].file]) \in {"next", "nohaze"}
         /\ Decision(Plan[n], fs[Plan[n].file]) = "next" => Outside(n + 1)
<1>1. CASE n = 1
  <2>1. Has(fs["io"], "cube")
    <3>1. 9 \in Needed /\ Plan[9] = CubeIo
      BY PlanFacts DEF Needed
    <3> QED
      BY <3>1, EditedFacts DEF AllEdits
  <2>2. fs["io"] # Torn
    BY <2>1 DEF Has
  <2> QED
    BY <1>1, <2>2, PlanFacts, DecisionFacts, EditedFacts DEF Outside
<1>2. CASE n # 1
  <2>1. n \in Needed
    BY <1>2, NeededFacts DEF Outside
  <2>2. Has(fs[Plan[n].file], Plan[n].edit)
    BY <2>1 DEF AllEdits
  <2>3. Plan[n].file \in Files /\ Plan[n].edit \in Edits
    BY EntryFacts
  <2>4. ~Anchored(fs[Plan[n].file], Plan[n].edit) /\ fs[Plan[n].file] # Torn
    BY <2>2, <2>3, MarkFacts
  <2> QED
    BY <1>2, <2>2, <2>4, WhichEntry, DecisionFacts, EditedFacts DEF Outside
<1> QED
  BY <1>1, <1>2

\* Sources where no run was killed: none is torn, no edit is there twice, and
\* the edits of the haze are all there or all missing, but for those a call is
\* at (its entries 4 to 6, where the current layout does not come).
Clean(fs, n) ==
  /\ \A f \in Files : fs[f] # Torn /\ ~Twice(fs[f])
  /\ ~version.legacy => n \notin 2 .. 6
  /\ version.legacy /\ n \notin 4 .. 6 =>
       /\ Anchored(fs["types"], "haze") <=> Anchored(fs["render"], "haze")
       /\ Anchored(fs["io"], "haze") <=> Anchored(fs["render"], "haze")
  /\ version.legacy /\ n \in 4 .. 6 =>
       /\ Anchored(fs["render"], "haze")
       /\ Anchored(fs["io"], "haze") <=> n < 6
       /\ Anchored(fs["types"], "haze") <=> n < 5

\* A text that has no edit twice has none twice after an edit it did not have.
LEMMA OnceMore ==
  ASSUME NEW x \in Texts, NEW e \in Edits, ~Twice(x), Anchored(x, e)
  PROVE  /\ Apply(x, e) # Torn /\ ~Twice(Apply(x, e))
         /\ ~Anchored(Apply(x, e), e)
         /\ \A d \in Edits \ {e} : Anchored(Apply(x, e), d) <=> Anchored(x, d)
BY TextFacts DEF Twice, Anchored

\* A call completes clean sources: it does not raise, and each edit it makes is
\* one the text did not have.
LEMMA CleanStep ==
  ASSUME version \in Versions,
         NEW fs \in [Files -> Texts], NEW n \in 1 .. Len(Plan), Clean(fs, n),
         NEW gs,
         gs = [fs EXCEPT ![Plan[n].file] = Edited(Plan[n], fs[Plan[n].file])]
  PROVE  /\ Decision(Plan[n], fs[Plan[n].file]) = "edit" => Clean(gs, n + 1)
         /\ Decision(Plan[n], fs[Plan[n].file]) = "next" => Clean(fs, n + 1)
         /\ Decision(Plan[n], fs[Plan[n].file]) = "nohaze" =>
              Clean(fs, AfterHaze)
         /\ Decision(Plan[n], fs[Plan[n].file]) # "raise"
<1> DEFINE x == fs[Plan[n].file]
<1>1. /\ fs["types"] \in Texts /\ fs["io"] \in Texts /\ fs["render"] \in Texts
      /\ Files = {"types", "io", "render"}
      /\ "cube" \in Edits /\ "haze" \in Edits /\ "shadow" \in Edits
      /\ Plan[n].file \in Files /\ x # Torn /\ ~Twice(x) /\ x \in Texts
  BY EntryFacts DEF Files, Edits, Clean
<1>2. CASE n = 1 /\ Plan[n] = Branch
  BY <1>1, <1>2, DecisionFacts, PlanFacts DEF Clean
<1>3. CASE version.legacy /\ n = 2 /\ Plan[n] = ShadowEdit
  <2>1. Plan[n].file = "render" /\ x = fs["render"]
    BY <1>3, EditedFacts
  <2>2. CASE Anchored(x, "shadow")
    <3>1. gs = [fs EXCEPT !["render"] = Apply(x, "shadow")]
      <4>1. ShadowEdit.edit = "shadow"
        BY EditedFacts
      <4>2. Edited(ShadowEdit, x) = Apply(x, "shadow")
        BY <2>2, <4>1, EditedFacts
      <4> QED
        BY <1>3, <2>1, <4>2
    <3>2. Clean(gs, n + 1)
      BY <1>1, <1>3, <2>1, <2>2, <3>1, OnceMore DEF Clean
    <3> QED
      BY <1>3, <2>2, <3>2, DecisionFacts
  <2>3. CASE ~Anchored(x, "shadow")
    <3>1. Decision(Plan[n], x) = "next"
      BY <1>3, <2>3, DecisionFacts
    <3> QED
      BY <1>3, <3>1 DEF Clean
  <2> QED
    BY <2>2, <2>3
<1>4. CASE version.legacy /\ n = 3 /\ Plan[n] = HazeGate
  <2>1. x = fs["render"]
    BY <1>4, EditedFacts
  <2> QED
    BY <1>4, <2>1, DecisionFacts, PlanFacts DEF Clean
<1>5. CASE version.legacy /\ n = 4 /\ Plan[n] = HazeTypes
  <2>1. Plan[n].file = "types" /\ x = fs["types"] /\ Anchored(x, "haze")
    BY <1>5, EditedFacts DEF Clean
  <2>2. gs = [fs EXCEPT !["types"] = Apply(x, "haze")]
    BY <1>5, <2>1, EditedFacts
  <2>3. Clean(gs, n + 1)
    BY <1>1, <1>5, <2>1, <2>2, OnceMore DEF Clean
  <2> QED
    BY <1>1, <1>5, <2>3, VersionFacts, DecisionFacts
<1>6. CASE version.legacy /\ n = 5 /\ Plan[n] = HazeIo
  <2>1. Plan[n].file = "io" /\ x = fs["io"] /\ Anchored(x, "haze")
    BY <1>6, EditedFacts DEF Clean
  <2>2. gs = [fs EXCEPT !["io"] = Apply(x, "haze")]
    BY <1>6, <2>1, EditedFacts
  <2>3. Clean(gs, n + 1)
    BY <1>1, <1>6, <2>1, <2>2, OnceMore DEF Clean
  <2> QED
    BY <1>1, <1>6, <2>1, <2>3, DecisionFacts
<1>7. CASE version.legacy /\ n = 6 /\ Plan[n] = HazeRender
  <2>1. Plan[n].file = "render" /\ x = fs["render"] /\ Anchored(x, "haze")
    BY <1>7, EditedFacts DEF Clean
  <2>2. gs = [fs EXCEPT !["render"] = Apply(x, "haze")]
    BY <1>7, <2>1, EditedFacts
  <2>3. Clean(gs, n + 1)
    BY <1>1, <1>7, <2>1, <2>2, OnceMore DEF Clean
  <2> QED
    BY <1>1, <1>7, <2>3, DecisionFacts
<1>8. ASSUME n > 6 PROVE Clean(fs, n + 1)
  BY <1>8 DEF Clean
<1>9. CASE n = 7 /\ Plan[n] = CubeFind
  BY <1>1, <1>8, <1>9, DecisionFacts
<1>10. ASSUME NEW s \in {CubeTypes, CubeIo, CubeRender}, Plan[n] = s, n > 6
       PROVE  /\ Decision(s, x) = "edit" => Clean(gs, n + 1)
              /\ Decision(s, x) \in {"edit", "next"}
  <2>1. Decision(s, x) \in {"edit", "next"}
    BY <1>1, <1>10, DecisionFacts, VersionFacts, MarkFacts
  <2>2. ASSUME Decision(s, x) = "edit" PROVE Clean(gs, n + 1)
    <3>1. Anchored(x, "cube") /\ s.edit = "cube"
      BY <1>10, <2>2, DecisionFacts, EditedFacts
    <3>2. Edited(s, x) = Apply(x, s.edit)
      BY <1>10, <3>1, EditedFacts
    <3>3. gs = [fs EXCEPT ![Plan[n].file] = Apply(x, "cube")]
      BY <1>10, <3>1, <3>2
    <3> QED
      BY <1>1, <1>10, <3>1, <3>3, OnceMore DEF Clean
  <2> QED
    BY <2>1, <2>2
<1>11. CASE \E s \in {CubeTypes, CubeIo, CubeRender} : Plan[n] = s /\ n > 6
  BY <1>8, <1>10, <1>11
<1>12. n \in 2 .. 6 => version.legacy
  BY DEF Clean
<1> QED
  BY <1>2, <1>3, <1>4, <1>5, <1>6, <1>7, <1>9, <1>11, <1>12, WhichEntry

-----------------------------------------------------------------------------
(* The types of the sources and processes, for any set of processes. *)

\* Within a call the step is an entry of the plan.
StepInv ==
  /\ step \in [Procs -> Nat] /\ pass \in [Procs -> Nat]
  /\ \A p \in Procs : pc[p] \in Active => step[p] \in 1 .. Len(Plan)

\* A step of the program is one of the sources or leaves them alone.
LEMMA ProcessIsPatch == ProcessNext => [Next]_vars
BY DEF ProcessNext, Sources, Kernels

\* The plan has entries, the haze edits end within it.
LEMMA PlanLength ==
  Len(Plan) \in Nat /\ Len(Plan) >= 1 /\ AfterHaze \in 1 .. Len(Plan)
BY PlanFacts

\* What an edit makes of a text is a text.
LEMMA EditedType ==
  ASSUME NEW x \in Texts, NEW n \in 1 .. Len(Plan)
  PROVE  Edited(Plan[n], x) \in Texts
BY EntryFacts, TextFacts DEF Edited

\* Each call starts from where a program makes one.
LEMMA PassFacts ==
  /\ DOMAIN Passes = {"library", "path_first", "package_first"}
  /\ \A g \in DOMAIN Passes : Len(Passes[g]) \in {1, 2}
  /\ Len(Passes["library"]) = 1 /\ Len(Passes["path_first"]) = 2
  /\ Len(Passes["package_first"]) = 2
  /\ Passes["path_first"][1] = "ends"
  /\ Passes["package_first"][2] = "ends"
BY DEF Passes

\* Types hold at the start.
LEMMA TypeInit == Init => TypeOK /\ StepInv
<1> SUFFICES ASSUME Init PROVE TypeOK /\ StepInv
  OBVIOUS
<1>1. Pristine \in Texts
  BY DEF Pristine, Texts, Counts
<1>2. version \in Versions /\ cut \in SUBSET Files
  BY DEF Init
<1>3. file \in [Files -> Texts] /\ bak \in [Files -> Texts \cup {NoFile, Outdated}]
  BY <1>1 DEF Init
<1>4. text \in [Procs -> Texts] /\ copy \in [Procs -> Texts]
  BY <1>1 DEF Init
<1>5. /\ program \in [Procs -> DOMAIN Passes]
      /\ \A p \in Procs : pass[p] \in 1 .. Len(Passes[program[p]])
  <2>1. "library" \in DOMAIN Passes /\ Len(Passes["library"]) = 1
    BY PassFacts
  <2>2. \A p \in Procs : program[p] = "library" /\ pass[p] = 1
    BY DEF Init
  <2>3. program \in [Procs -> DOMAIN Passes]
    BY <2>1 DEF Init
  <2>4. ASSUME NEW p \in Procs PROVE pass[p] \in 1 .. Len(Passes[program[p]])
    <3>1. pass[p] = 1 /\ Len(Passes[program[p]]) = 1
      BY <2>1, <2>2
    <3> QED
      BY <3>1
  <2> QED
    BY <2>3, <2>4
<1>6. crashes \in 0 .. MaxCrashes /\ reinstalls \in 0 .. MaxReinstalls
  BY RenderAssumption DEF Init
<1>7. \A p \in Procs : pc[p] = "idle"
  BY DEF Init
<1>8. /\ pc \in [Procs -> Active \cup {"idle", "patched", "run"}]
      /\ result \in [Procs -> {"none", "ok", "raised"}]
      /\ loaded \in [Procs -> [Files -> Texts] \cup {NotLoaded}]
  BY DEF Init
<1>9. StepInv
  BY <1>7 DEF Init, StepInv, Active
<1>10. \A p \in Procs : pc[p] \notin Writing
  BY <1>7 DEF Writing, Active
<1> QED
  BY <1>2, <1>3, <1>4, <1>5, <1>6, <1>7, <1>8, <1>9, <1>10 DEF TypeOK, Active

\* Where a call goes after its entry.
LEMMA GoToType ==
  ASSUME TypeOK, StepInv, NEW p \in Procs, NEW n \in 1 .. Len(Plan) + 1,
         GoTo(p, n), UNCHANGED <<version, pass>>
  PROVE  /\ step' = [step EXCEPT ![p] = n]
         /\ pc' \in [Procs -> Active \cup {"idle", "patched", "run"}]
         /\ \A q \in Procs : pc'[q] # "idle" => step'[q] \in 1 .. Len(Plan) + 1
         /\ result' \in [Procs -> {"none", "ok", "raised"}]
         /\ StepInv'
<1>1. n \in Nat /\ Len(Plan) \in Nat
  BY PlanLength
<1>2. /\ step' \in [Procs -> Nat] /\ step'[p] = n
      /\ \A q \in Procs \ {p} : step'[q] = step[q] /\ pc'[q] = pc[q]
      /\ pc'[p] = IF n > Len(Plan) THEN "patched" ELSE "read"
  BY <1>1 DEF TypeOK, StepInv, GoTo
<1>3. ASSUME NEW q \in Procs, pc'[q] # "idle"
      PROVE  step'[q] \in 1 .. Len(Plan) + 1
  BY <1>1, <1>2, <1>3 DEF TypeOK
<1>4. ASSUME NEW q \in Procs, pc'[q] \in Active
      PROVE  step'[q] \in 1 .. Len(Plan)
  BY <1>1, <1>2, <1>4 DEF StepInv, Active
<1>5. pass' \in [Procs -> Nat]
  BY DEF StepInv
<1> QED
  BY <1>2, <1>3, <1>4, <1>5 DEF TypeOK, StepInv, GoTo, Active

\* What a process is about to write, but for HazeRender, is whole.
LEMMA TextStep ==
  ASSUME TypeOK, StepInv, NEW p \in Procs, ProcStep(p), NEW q \in Procs,
         pc'[q] \in Writing, Plan[step'[q]].do # "rewrite"
  PROVE  text'[q] # Torn
<1> USE DEF TypeOK, StepInv
<1>1. CASE q # p
  <2>1. pc'[q] = pc[q] /\ step'[q] = step[q] /\ text'[q] = text[q]
    BY <1>1 DEF ProcStep, Start, Call, ReadAndEdit, ReadAndSkip, GoTo,
                ReadAndRaise, BackupExists, BackupRead, BackupTruncate,
                BackupWrite, Truncate, Write, Import, Exit, Crash
  <2> QED
    BY <2>1 DEF Now
<1>2. CASE q = p /\ ReadAndEdit(p)
  <2>1. pc[p] \in Active
    BY <1>2 DEF ReadAndEdit, Active
  <2>2. /\ step[p] \in 1 .. Len(Plan) /\ step' = step
        /\ Decision(Plan[step[p]], file[Plan[step[p]].file]) = "edit"
        /\ text'[p] = Edited(Plan[step[p]], file[Plan[step[p]].file])
    BY <1>2, <2>1 DEF ReadAndEdit, Now
  <2>3. file[Plan[step[p]].file] \in Texts
    BY <2>2, EntryFacts
  <2> QED
    BY <1>2, <2>2, <2>3, EditedWhole
<1>3. CASE q = p /\ \/ BackupExists(p) \/ BackupRead(p) \/ BackupTruncate(p)
                    \/ BackupWrite(p) \/ Truncate(p)
  <2>1. pc[p] \in Writing /\ step' = step /\ text' = text
    BY <1>3 DEF BackupExists, BackupRead, BackupTruncate, BackupWrite, Truncate,
                Writing, Active
  <2> QED
    BY <1>3, <2>1 DEF Now
<1>4. CASE q = p /\ \/ Start(p) \/ ReadAndSkip(p) \/ ReadAndRaise(p) \/ Write(p)
                    \/ Import(p) \/ Exit(p) \/ Crash(p)
  <2>1. pc'[p] \in {"idle", "read", "patched", "run"}
    BY <1>4 DEF Start, Call, ReadAndSkip, GoTo, ReadAndRaise, Write, Import,
                Exit, Crash
  <2> QED
    BY <1>4, <2>1 DEF Writing, Active
<1> QED
  BY <1>1, <1>2, <1>3, <1>4 DEF ProcStep

\* Every step of the sources keeps the types.
LEMMA TypeStep == TypeOK /\ StepInv /\ [Next]_vars => TypeOK' /\ StepInv'
<1> SUFFICES ASSUME TypeOK, StepInv, [Next]_vars PROVE TypeOK' /\ StepInv'
  OBVIOUS
<1> DEFINE PcType == pc \in [Procs -> Active \cup {"idle", "patched", "run"}]
           StepType == \A p \in Procs : pc[p] # "idle" =>
                         step[p] \in 1 .. Len(Plan) + 1
           PassType == /\ program \in [Procs -> DOMAIN Passes]
                       /\ \A p \in Procs :
                            pass[p] \in 1 .. Len(Passes[program[p]])
           FileType == /\ file \in [Files -> Texts]
                       /\ bak \in [Files -> Texts \cup {NoFile, Outdated}]
                       /\ text \in [Procs -> Texts] /\ copy \in [Procs -> Texts]
           TextType == \A p \in Procs :
                         pc[p] \in Writing /\ Now(p).do # "rewrite" =>
                           text[p] # Torn
           RestType == /\ version \in Versions /\ cut \in SUBSET Files
                       /\ result \in [Procs -> {"none", "ok", "raised"}]
                       /\ loaded \in [Procs -> [Files -> Texts] \cup {NotLoaded}]
                       /\ crashes \in 0 .. MaxCrashes
                       /\ reinstalls \in 0 .. MaxReinstalls
<1>1. TypeOK <=> /\ PcType /\ StepType /\ PassType
                 /\ FileType /\ TextType /\ RestType
  BY DEF TypeOK
<1>2. TypeOK' <=> /\ PcType' /\ StepType' /\ PassType'
                  /\ FileType' /\ TextType' /\ RestType'
  BY DEF TypeOK
<1>3. Torn \in Texts /\ Pristine \in Texts
  BY DEF Texts, Pristine, Counts
<1>4. ASSUME NEW p \in Procs, pc[p] \in Active
      PROVE  /\ step[p] \in 1 .. Len(Plan) /\ Now(p).file \in Files
             /\ file[Now(p).file] \in Texts
  <2>1. step[p] \in 1 .. Len(Plan)
    BY <1>4 DEF StepInv
  <2> QED
    BY <1>1, <2>1, EntryFacts DEF Now
<1>5. ASSUME UNCHANGED vars PROVE TypeOK' /\ StepInv'
  BY <1>1, <1>2, <1>5 DEF vars, procVars, runVars, StepInv, Now
<1>6. ASSUME Reinstall PROVE TypeOK' /\ StepInv'
  <2>1. \A p \in Procs : pc'[p] = "idle"
    BY <1>6 DEF Reinstall, procVars
  <2>2. FileType' /\ RestType'
    BY <1>1, <1>3, <1>6, RenderAssumption DEF Reinstall, procVars, runVars
  <2>3. StepType' /\ PcType' /\ PassType' /\ TextType'
    BY <1>1, <1>6, <2>1 DEF Reinstall, procVars, runVars, Writing, Active
  <2>4. StepInv'
    BY <1>6, <2>1 DEF Reinstall, procVars, runVars, StepInv, Active
  <2> QED
    BY <1>2, <2>2, <2>3, <2>4
<1>7. ASSUME NEW p \in Procs, ProcStep(p) PROVE TypeOK' /\ StepInv'
  <2>0. PcType' /\ StepType' /\ PassType' /\ FileType' /\ RestType' => TypeOK'
    <3>1. TextType'
      BY <1>7, TextStep DEF Now
    <3> QED
      BY <1>2, <3>1
  <2>1. version' = version
    BY <1>7 DEF ProcStep, Start, ReadAndEdit, ReadAndSkip, ReadAndRaise,
                BackupExists, BackupRead, BackupTruncate, BackupWrite, Truncate,
                Write, Import, Exit, Crash
  <2>2. Len(Plan) \in Nat /\ Len(Plan) >= 1
    BY PlanLength
  <2>3. ASSUME Call(p, pass'[p]), pass'[p] \in Nat,
               pass'[p] \in 1 .. Len(Passes[program'[p]]),
               program' \in [Procs -> DOMAIN Passes],
               \A q \in Procs \ {p} : program'[q] = program[q]
        PROVE  PcType' /\ StepType' /\ PassType' /\ StepInv' /\
               result' \in [Procs -> {"none", "ok", "raised"}]
    <3>1. /\ step' \in [Procs -> Nat] /\ pass' \in [Procs -> Nat]
          /\ step'[p] = 1 /\ pc'[p] = "read" /\ PcType'
          /\ \A q \in Procs \ {p} : /\ step'[q] = step[q] /\ pc'[q] = pc[q]
                                    /\ pass'[q] = pass[q]
      BY <1>1, <2>3 DEF Call, StepInv, Active
    <3>2. ASSUME NEW q \in Procs
          PROVE  /\ pc'[q] # "idle" => step'[q] \in 1 .. Len(Plan) + 1
                 /\ pc'[q] \in Active => step'[q] \in 1 .. Len(Plan)
                 /\ pass'[q] \in 1 .. Len(Passes[program'[q]])
      <4>1. CASE q = p
        BY <2>2, <2>3, <3>1, <4>1
      <4>2. CASE q # p
        <5>1. /\ program'[q] = program[q] /\ pass'[q] = pass[q]
              /\ step'[q] = step[q] /\ pc'[q] = pc[q]
          BY <2>3, <3>1, <4>2
        <5>2. pass[q] \in 1 .. Len(Passes[program[q]])
          BY <1>1
        <5>3. pass'[q] \in 1 .. Len(Passes[program'[q]])
          BY <5>1, <5>2
        <5> QED
          BY <1>1, <2>2, <5>1, <5>3 DEF StepInv
      <4> QED
        BY <4>1, <4>2
    <3>3. result' \in [Procs -> {"none", "ok", "raised"}]
      BY <1>1, <2>3 DEF Call
    <3> QED
      BY <2>3, <3>1, <3>2, <3>3 DEF StepInv
  <2>4. ASSUME UNCHANGED <<step, pass, program>>, PcType',
               \A q \in Procs \ {p} : pc'[q] = pc[q],
               \/ pc[p] \in Active
               \/ pc'[p] \notin Active /\ (pc'[p] # "idle" => pc[p] # "idle")
        PROVE  PcType' /\ StepType' /\ PassType' /\ StepInv'
    <3>1. ASSUME NEW q \in Procs
          PROVE  /\ pc'[q] # "idle" => step'[q] \in 1 .. Len(Plan) + 1
                 /\ pc'[q] \in Active => step'[q] \in 1 .. Len(Plan)
      <4>1. CASE q = p /\ pc[p] \in Active
        <5>1. step'[p] \in 1 .. Len(Plan)
          BY <1>4, <2>4, <4>1
        <5> QED
          BY <2>2, <4>1, <5>1
      <4>2. CASE q # p
        BY <1>1, <2>2, <2>4, <4>2 DEF StepInv
      <4>3. CASE q = p /\ pc[p] \notin Active
        BY <1>1, <2>2, <2>4, <4>3
      <4> QED
        BY <4>1, <4>2, <4>3
    <3> QED
      BY <1>1, <2>4, <3>1 DEF StepInv
  <2>5. CASE Start(p)
    <3>1. pass' = [pass EXCEPT ![p] = 1] /\ Call(p, 1)
      BY <2>5 DEF Start, Call
    <3>2. pass'[p] = 1
      BY <3>1 DEF StepInv
    <3>3. PICK g \in DOMAIN Passes : program' = [program EXCEPT ![p] = g]
      BY <2>5 DEF Start
    <3>4. /\ program' \in [Procs -> DOMAIN Passes] /\ program'[p] = g
          /\ \A q \in Procs \ {p} : program'[q] = program[q]
      BY <1>1, <3>3
    <3>5. pass'[p] \in 1 .. Len(Passes[program'[p]])
      BY <3>2, <3>4, PassFacts
    <3>6. FileType'
      BY <1>1, <2>5 DEF Start
    <3>7. PcType' /\ StepType' /\ PassType' /\ StepInv' /\
          result' \in [Procs -> {"none", "ok", "raised"}]
      BY <2>3, <3>1, <3>2, <3>4, <3>5
    <3>8. RestType'
      BY <1>1, <2>1, <2>5, <3>7 DEF Start
    <3> QED
      BY <2>0, <3>6, <3>7, <3>8
  <2>6. CASE ReadAndEdit(p)
    <3>1. pc[p] \in Active
      BY <2>6 DEF ReadAndEdit, Active
    <3>2. Edited(Now(p), file[Now(p).file]) \in Texts
      BY <1>4, <3>1, EditedType DEF Now
    <3>3. FileType' /\ PcType' /\ RestType'
      BY <1>1, <2>6, <3>2 DEF ReadAndEdit, runVars, Active
    <3>4. \A q \in Procs \ {p} : pc'[q] = pc[q]
      BY <1>1, <2>6 DEF ReadAndEdit
    <3> QED
      BY <2>0, <2>4, <2>6, <3>1, <3>3, <3>4 DEF ReadAndEdit, runVars
  <2>7. CASE ReadAndSkip(p)
    <3>1. pc[p] \in Active
      BY <2>7 DEF ReadAndSkip, Active
    <3>2. PICK n \in 1 .. Len(Plan) + 1 : GoTo(p, n)
      <4>1. step[p] + 1 \in 1 .. Len(Plan) + 1
        BY <1>4, <2>2, <3>1
      <4>2. ASSUME Decision(Now(p), file[Now(p).file]) = "nohaze"
            PROVE  AfterHaze \in 1 .. Len(Plan) + 1
        BY <2>2, PlanLength
      <4> QED
        BY <2>7, <4>1, <4>2 DEF ReadAndSkip
    <3>3. /\ PcType' /\ StepType' /\ StepInv'
          /\ result' \in [Procs -> {"none", "ok", "raised"}]
      BY <2>1, <2>7, <3>2, GoToType DEF ReadAndSkip, runVars
    <3>4. FileType' /\ PassType' /\ RestType'
      BY <1>1, <2>7, <3>3 DEF ReadAndSkip, runVars
    <3> QED
      BY <2>0, <3>3, <3>4
  <2>8. CASE ReadAndRaise(p)
    <3>1. FileType' /\ PcType' /\ RestType' /\ pc[p] \in Active
      BY <1>1, <2>8 DEF ReadAndRaise, runVars, Active
    <3>2. \A q \in Procs \ {p} : pc'[q] = pc[q]
      BY <1>1, <2>8 DEF ReadAndRaise
    <3> QED
      BY <2>0, <2>4, <2>8, <3>1, <3>2 DEF ReadAndRaise, runVars
  <2>9. CASE BackupExists(p)
    <3>1. FileType' /\ PcType' /\ RestType' /\ pc[p] \in Active
      BY <1>1, <2>9 DEF BackupExists, runVars, Active
    <3>2. \A q \in Procs \ {p} : pc'[q] = pc[q]
      BY <1>1, <2>9 DEF BackupExists
    <3> QED
      BY <2>0, <2>4, <2>9, <3>1, <3>2 DEF BackupExists, runVars
  <2>10. CASE BackupRead(p)
    <3>1. pc[p] \in Active
      BY <2>10 DEF BackupRead, Active
    <3>2. FileType' /\ PcType' /\ RestType'
      BY <1>1, <1>4, <2>10, <3>1 DEF BackupRead, runVars, Active
    <3>3. \A q \in Procs \ {p} : pc'[q] = pc[q]
      BY <1>1, <2>10 DEF BackupRead
    <3> QED
      BY <2>0, <2>4, <2>10, <3>1, <3>2, <3>3 DEF BackupRead, runVars
  <2>11. CASE BackupTruncate(p)
    <3>1. pc[p] \in Active
      BY <2>11 DEF BackupTruncate, Active
    <3>2. FileType' /\ PcType' /\ RestType'
      BY <1>1, <1>3, <1>4, <2>11, <3>1 DEF BackupTruncate, runVars, Active
    <3>3. \A q \in Procs \ {p} : pc'[q] = pc[q]
      BY <1>1, <2>11 DEF BackupTruncate
    <3> QED
      BY <2>0, <2>4, <2>11, <3>1, <3>2, <3>3 DEF BackupTruncate, runVars
  <2>12. CASE BackupWrite(p)
    <3>1. pc[p] \in Active
      BY <2>12 DEF BackupWrite, Active
    <3>2. \A x \in Written(bak[Now(p).file], copy[p]) : x \in Texts
      BY <1>1, <1>3 DEF Written
    <3>3. bak' \in [Files -> Texts \cup {NoFile, Outdated}]
      BY <1>1, <1>4, <2>12, <3>1, <3>2 DEF BackupWrite
    <3>4. FileType' /\ PcType' /\ RestType'
      BY <1>1, <2>12, <3>3 DEF BackupWrite, runVars, Active
    <3>5. \A q \in Procs \ {p} : pc'[q] = pc[q]
      BY <1>1, <2>12 DEF BackupWrite
    <3> QED
      BY <2>0, <2>4, <2>12, <3>1, <3>4, <3>5 DEF BackupWrite, runVars
  <2>13. CASE Truncate(p)
    <3>1. pc[p] \in Active
      BY <2>13 DEF Truncate, Active
    <3>2. FileType' /\ PcType' /\ RestType'
      BY <1>1, <1>3, <1>4, <2>13, <3>1 DEF Truncate, runVars, Active
    <3>3. \A q \in Procs \ {p} : pc'[q] = pc[q]
      BY <1>1, <2>13 DEF Truncate
    <3> QED
      BY <2>0, <2>4, <2>13, <3>1, <3>2, <3>3 DEF Truncate, runVars
  <2>14. CASE Write(p)
    <3>1. pc[p] \in Active
      BY <2>14 DEF Write, Active
    <3>2. \A x \in Written(file[Now(p).file], text[p]) : x \in Texts
      BY <1>1, <1>3 DEF Written
    <3>3. file' \in [Files -> Texts]
      BY <1>1, <1>4, <2>14, <3>1, <3>2 DEF Write
    <3>4. step[p] + 1 \in 1 .. Len(Plan) + 1 /\ GoTo(p, step[p] + 1)
      BY <1>4, <2>2, <2>14, <3>1 DEF Write
    <3>5. /\ PcType' /\ StepType' /\ StepInv'
          /\ result' \in [Procs -> {"none", "ok", "raised"}]
      BY <2>1, <2>14, <3>4, GoToType DEF Write, runVars
    <3>6. FileType' /\ PassType' /\ RestType'
      BY <1>1, <2>14, <3>3, <3>5 DEF Write, runVars
    <3> QED
      BY <2>0, <3>5, <3>6
  <2>15. CASE Import(p)
    <3>1. FileType' /\ loaded' \in [Procs -> [Files -> Texts] \cup {NotLoaded}]
      BY <1>1, <2>15 DEF Import
    <3>2. CASE pass[p] < Len(Passes[program[p]])
      <4>1. Call(p, pass[p] + 1) /\ pass' = [pass EXCEPT ![p] = pass[p] + 1]
        BY <2>15, <3>2 DEF Import, Call
      <4>2. pass'[p] = pass[p] + 1 /\ pass[p] \in Nat
        BY <4>1 DEF StepInv
      <4>3. program' = program /\ Len(Passes[program[p]]) \in Nat
        BY <1>1, <2>15, PassFacts DEF Import
      <4>4. pass'[p] \in 1 .. Len(Passes[program'[p]])
        BY <3>2, <4>2, <4>3
      <4>5. PcType' /\ StepType' /\ PassType' /\ StepInv' /\
            result' \in [Procs -> {"none", "ok", "raised"}]
        BY <1>1, <2>3, <4>1, <4>2, <4>3, <4>4
      <4>6. RestType'
        BY <1>1, <2>15, <3>1, <4>5 DEF Import
      <4> QED
        BY <2>0, <3>1, <4>5, <4>6
    <3>3. CASE ~(pass[p] < Len(Passes[program[p]]))
      <4>1. /\ pc' = [pc EXCEPT ![p] = "run"]
            /\ UNCHANGED <<step, result, pass, program>>
        BY <2>15, <3>3 DEF Import
      <4>2. /\ PcType' /\ pc[p] # "idle" /\ pc'[p] \notin Active
            /\ \A q \in Procs \ {p} : pc'[q] = pc[q]
        BY <1>1, <2>15, <4>1 DEF Import, Active
      <4>3. RestType'
        BY <1>1, <2>15, <3>1, <4>1 DEF Import
      <4> QED
        BY <2>0, <2>4, <3>1, <4>1, <4>2, <4>3
    <3> QED
      BY <3>2, <3>3
  <2>16. CASE Exit(p) \/ Crash(p)
    <3>1. /\ UNCHANGED <<file, bak, text, copy, step, pass, program, result>>
          /\ pc' = [pc EXCEPT ![p] = "idle"]
          /\ loaded' = [loaded EXCEPT ![p] = NotLoaded]
          /\ reinstalls' = reinstalls
          /\ \/ crashes' = crashes
             \/ crashes < MaxCrashes /\ crashes' = crashes + 1
          /\ cut' \in SUBSET Files
      <4>1. CASE Exit(p)
        BY <1>1, <4>1 DEF Exit
      <4>2. CASE Crash(p)
        BY <1>1, <1>4, <4>2 DEF Crash
      <4> QED
        BY <2>16, <4>1, <4>2
    <3>2. /\ FileType' /\ PcType' /\ pc'[p] = "idle"
          /\ \A q \in Procs \ {p} : pc'[q] = pc[q]
      BY <1>1, <3>1
    <3>3. RestType'
      BY <1>1, <2>1, <3>1, RenderAssumption
    <3>4. pc'[p] \notin Active
      BY <3>2 DEF Active
    <3> QED
      BY <2>0, <2>4, <3>1, <3>2, <3>3, <3>4
  <2> QED
    BY <1>7, <2>5, <2>6, <2>7, <2>8, <2>9, <2>10, <2>11, <2>12, <2>13, <2>14,
       <2>15, <2>16 DEF ProcStep
<1> QED
  BY <1>5, <1>6, <1>7 DEF Next

-----------------------------------------------------------------------------
(* The lookups of a kernel, for any set of processes. *)

\* What a step of the program does to the kernel.
LEMMA ProcessIsKernel ==
  ProcessNext => KernelStep \/ Restart \/ UNCHANGED kernelVars
BY DEF ProcessNext, Sources, Kernels

\* Outside a lookup the wrapper has left no name of its own behind, within one
\* it remembers the name Warp gave, and a module that was built has a name.
NameInv ==
  /\ \A d \in BlockDims : meta[d] # NotBuilt => meta[d].name # NoName
  /\ looking = {} => override = NoName /\ cached = given
  /\ looking # {} => saved = given

\* The name a lookup asks for is never the one that stands for no name.
LEMMA NamedOutside ==
  ASSUME KernelTypeOK, override = NoName
  PROVE  MangledName \in Hashes /\ MangledName # NoName
BY KernelAssumption DEF KernelTypeOK, MangledName, Names

\* A process that has just started.
LEMMA KernelStart ==
  ASSUME hash' \in Hashes, cached' = NoName, saved' = NoName, override' = NoName,
         given' = NoName, meta' = Unbuilt, looking' = {}
  PROVE  KernelTypeOK' /\ NameInv' /\ KernelFound'
BY DEF KernelTypeOK, NameInv, KernelFound, Unbuilt, Names, NotBuilt

\* Its kernel keeps to its types, and a lookup fails only as KernelFound says.
LEMMA KernelInduction ==
  ASSUME KernelTypeOK, NameInv, KernelFound,
         KernelStep \/ Restart \/ UNCHANGED kernelVars
  PROVE  KernelTypeOK' /\ NameInv' /\ KernelFound'
<1>1. CASE UNCHANGED kernelVars
  BY <1>1
     DEF KernelTypeOK, NameInv, KernelFound, kernelVars, Fails, MangledName,
              GivenName
<1>2. CASE Restart
  BY <1>2, KernelStart DEF Restart, KernelTypeOK
<1>3. CASE Leave
  <2>1. KernelTypeOK'
    BY <1>3 DEF Leave, KernelTypeOK, Restored, Names
  <2>2. NameInv' /\ KernelFound'
    BY <1>3 DEF Leave, NameInv, KernelFound, Restored
  <2> QED
    BY <2>1, <2>2
<1>4. ASSUME NEW b \in BlockDims, Build(b)
      PROVE  KernelTypeOK' /\ NameInv' /\ KernelFound'
  <2>1. looking = {} /\ override = NoName /\ cached = given
    BY <1>4 DEF Build, NameInv
  <2>2. MangledName \in Names /\ MangledName # NoName
    BY <2>1, NamedOutside DEF Names
  <2>3. /\ hash' \in Hashes /\ given' \in Names /\ cached' = given'
        /\ saved' = saved /\ override' = override /\ looking' = looking
    BY <1>4 DEF Build, Rename, KernelTypeOK, Names
  <2>4. PICK others \in BOOLEAN :
          meta' = [meta EXCEPT ![b] = [name |-> MangledName, others |-> others]]
    BY <1>4 DEF Build
  <2>5. KernelTypeOK'
    <3>1. meta' \in [BlockDims -> [name : Names, others : BOOLEAN]]
      BY <2>2, <2>4 DEF KernelTypeOK
    <3> QED
      BY <2>3, <3>1 DEF KernelTypeOK
  <2>6. ASSUME NEW d \in BlockDims, meta'[d] # NotBuilt
        PROVE  meta'[d].name # NoName
    <3>1. meta \in [BlockDims -> [name : Names, others : BOOLEAN]]
      BY DEF KernelTypeOK
    <3>2. CASE d = b
      BY <2>2, <2>4, <3>1, <3>2
    <3>3. CASE d # b
      BY <2>4, <2>6, <3>1, <3>3 DEF NameInv
    <3> QED
      BY <3>2, <3>3
  <2>7. NameInv' /\ KernelFound'
    BY <2>1, <2>3, <2>6 DEF NameInv, KernelFound
  <2> QED
    BY <2>5, <2>7
<1>5. ASSUME NEW b \in BlockDims, Enter(b)
      PROVE  KernelTypeOK' /\ NameInv' /\ KernelFound'
  <2>1. /\ looking = {} /\ override = NoName /\ cached = given
        /\ meta[b].name # NoName /\ looking' = {b} /\ saved' = given
        /\ override' = BuiltName(b) /\ UNCHANGED <<hash, meta, given>>
        /\ cached' = IF BuiltName(b) # NoName /\ cached # NoName
                     THEN BuiltName(b) ELSE cached
    BY <1>5 DEF Enter, NameInv
  <2>2. meta[b].name \in Names /\ BuiltName(b) \in Names
    BY DEF KernelTypeOK, BuiltName, Names
  <2>3. KernelTypeOK'
    BY <2>1, <2>2 DEF KernelTypeOK
  <2>4. NameInv'
    BY <2>1 DEF NameInv
  <2>5. CASE BuiltName(b) # NoName
    <3>1. BuiltName(b) = meta[b].name
      BY <2>5 DEF BuiltName
    <3>2. MangledName' = meta'[b].name
      BY <2>1, <2>5, <3>1 DEF MangledName
    <3> QED
      BY <2>1, <2>3, <2>4, <3>2 DEF KernelFound, Fails
  <2>6. CASE BuiltName(b) = NoName
    <3>1. MangledName' = MangledName /\ MangledName = GivenName
      BY <2>1, <2>6 DEF MangledName, GivenName
    <3>2. meta[b].name = MangledName \/ meta[b].others
      BY <2>1, <2>6 DEF BuiltName
    <3>3. GivenName' = GivenName
      BY <2>1 DEF GivenName
    <3> QED
      BY <2>1, <2>3, <2>4, <3>1, <3>2, <3>3 DEF KernelFound, Fails
  <2> QED
    BY <2>5, <2>6
<1> QED
  BY <1>1, <1>2, <1>3, <1>4, <1>5 DEF KernelStep

\* The state of a program over libero_mjx keeps to its types, for any number of
\* processes that patch the same sources at once.
THEOREM ProcessTyped == ProcessSpec => []ProcessTypeOK
<1> DEFINE IInv == TypeOK /\ StepInv /\ KernelTypeOK /\ NameInv /\ KernelFound
<1>1. ProcessInit => IInv
  <2> SUFFICES ASSUME ProcessInit PROVE IInv
    OBVIOUS
  <2>1. KernelTypeOK /\ NameInv /\ KernelFound
    BY DEF ProcessInit, KernelInit, KernelTypeOK, NameInv, KernelFound, Unbuilt,
           Names, NotBuilt
  <2> QED
    BY <2>1, TypeInit DEF ProcessInit
<1>2. IInv /\ [ProcessNext]_<<vars, kernelVars>> => IInv'
  <2> SUFFICES ASSUME IInv, [ProcessNext]_<<vars, kernelVars>> PROVE IInv'
    OBVIOUS
  <2>1. [Next]_vars
    BY ProcessIsPatch
  <2>2. KernelStep \/ Restart \/ UNCHANGED kernelVars
    BY ProcessIsKernel
  <2> QED
    BY <2>1, <2>2, TypeStep, KernelInduction
<1>3. IInv => ProcessTypeOK
  BY DEF ProcessTypeOK
<1> QED
  BY <1>1, <1>2, <1>3, PTL DEF ProcessSpec

\* A lookup fails only in a module that was built with several kernels under the
\* key, none of them under the name Warp gave this one, whichever modules were
\* built and looked into before: for any block_dims and hashes, and any number
\* of processes.
THEOREM LookupFinds == ProcessSpec => []KernelFound
<1> DEFINE IInv == KernelTypeOK /\ NameInv /\ KernelFound
<1>1. ProcessInit => IInv
  BY DEF ProcessInit, KernelInit, KernelTypeOK, NameInv, KernelFound, Unbuilt,
         Names, NotBuilt
<1>2. IInv /\ [ProcessNext]_<<vars, kernelVars>> => IInv'
  <2> SUFFICES ASSUME IInv, [ProcessNext]_<<vars, kernelVars>> PROVE IInv'
    OBVIOUS
  <2>1. KernelStep \/ Restart \/ UNCHANGED kernelVars
    BY ProcessIsKernel
  <2> QED
    BY <2>1, KernelInduction
<1>3. IInv => KernelFound
  OBVIOUS
<1> QED
  BY <1>1, <1>2, <1>3, PTL DEF ProcessSpec

-----------------------------------------------------------------------------
(* One process at a time.  Two that patch the same sources do damage each   *)
(* other's writes, so these theorems assume Procs = {Self}: the runs of one *)
(* process after the other, killed and reinstalled under however often.     *)

\* The file of the entry the process is at.
At == Now(Self).file
\* The sources as the write that is under way will leave them.
Target == [file EXCEPT ![At] = text[Self]]

\* What each action does to the process.
LEMMA Moves ==
  ASSUME TypeOK, StepInv
  PROVE  /\ Start(Self) =>
              /\ pc[Self] = "idle" /\ pc'[Self] = "read"
              /\ step'[Self] = 1 /\ pass'[Self] = 1
              /\ UNCHANGED <<version, file, bak, loaded, cut, crashes, reinstalls>>
         /\ ReadAndEdit(Self) =>
              /\ pc[Self] = "read" /\ pc'[Self] = "exists"
              /\ text'[Self] = Edited(Now(Self), file[At])
              /\ UNCHANGED <<version, file, bak, step, copy, result, runVars,
                             cut, crashes, reinstalls>>
         /\ ReadAndRaise(Self) =>
              /\ pc[Self] = "read" /\ pc'[Self] = "patched"
              /\ result'[Self] = "raised"
              /\ UNCHANGED <<version, file, bak, step, runVars, cut,
                             crashes, reinstalls>>
         /\ BackupExists(Self) =>
              /\ pc[Self] = "exists"
              /\ pc'[Self] = IF bak[At] = NoFile THEN "bakread" ELSE "truncate"
              /\ UNCHANGED <<version, file, bak, step, text, copy, result,
                             runVars, cut, crashes, reinstalls>>
         /\ BackupRead(Self) =>
              /\ pc[Self] = "bakread" /\ pc'[Self] = "baktruncate"
              /\ copy'[Self] = file[At]
              /\ UNCHANGED <<version, file, bak, step, text, result, runVars,
                             cut, crashes, reinstalls>>
         /\ BackupTruncate(Self) =>
              /\ pc[Self] = "baktruncate" /\ pc'[Self] = "bakwrite"
              /\ bak' = [bak EXCEPT ![At] = Torn]
              /\ UNCHANGED <<version, file, step, text, copy, result, runVars,
                             cut, crashes, reinstalls>>
         /\ BackupWrite(Self) =>
              /\ pc[Self] = "bakwrite" /\ pc'[Self] = "truncate"
              /\ \E x \in Written(bak[At], copy[Self]) :
                   bak' = [bak EXCEPT ![At] = x]
              /\ UNCHANGED <<version, file, step, text, copy, result, runVars,
                             cut, crashes, reinstalls>>
         /\ Truncate(Self) =>
              /\ pc[Self] = "truncate" /\ pc'[Self] = "write"
              /\ file' = [file EXCEPT ![At] = Torn]
              /\ UNCHANGED <<version, bak, step, text, copy, result, runVars,
                             cut, crashes, reinstalls>>
         /\ Exit(Self) \/ Crash(Self) =>
              /\ pc[Self] # "idle" /\ pc'[Self] = "idle"
              /\ UNCHANGED <<version, file, bak, reinstalls>>
              /\ \/ crashes' = crashes
                 \/ crashes \in Nat /\ crashes' = crashes + 1
         /\ Exit(Self) =>
              crashes' = crashes /\ cut' = cut /\ pc[Self] \notin Active
         /\ Crash(Self) =>
              cut \subseteq cut' /\ (pc[Self] = "bakwrite" => At \in cut')
         /\ Reinstall =>
              /\ pc[Self] = "idle" /\ pc'[Self] = "idle" /\ crashes' = crashes
              /\ version' \in Versions
              /\ file' = [f \in Files |-> Pristine]
              /\ reinstalls' = reinstalls + 1 /\ reinstalls \in Nat
<1> USE SelfAssumption DEF TypeOK, StepInv
<1>1. Start(Self) =>
        /\ pc[Self] = "idle" /\ pc'[Self] = "read"
        /\ step'[Self] = 1 /\ pass'[Self] = 1
        /\ UNCHANGED <<version, file, bak, loaded, cut, crashes, reinstalls>>
  BY DEF Start, Call
<1>2. ReadAndEdit(Self) =>
        /\ pc[Self] = "read" /\ pc'[Self] = "exists"
        /\ text'[Self] = Edited(Now(Self), file[At])
        /\ UNCHANGED <<version, file, bak, step, copy, result, runVars,
                       cut, crashes, reinstalls>>
  BY DEF ReadAndEdit, At
<1>3. ReadAndRaise(Self) =>
        /\ pc[Self] = "read" /\ pc'[Self] = "patched"
        /\ result'[Self] = "raised"
        /\ UNCHANGED <<version, file, bak, step, runVars, cut, crashes, reinstalls>>
  BY DEF ReadAndRaise
<1>4. BackupExists(Self) =>
        /\ pc[Self] = "exists"
        /\ pc'[Self] = IF bak[At] = NoFile THEN "bakread" ELSE "truncate"
        /\ UNCHANGED <<version, file, bak, step, text, copy, result, runVars,
                       cut, crashes, reinstalls>>
  BY DEF BackupExists, NeedsBackup, At
<1>5. BackupRead(Self) =>
        /\ pc[Self] = "bakread" /\ pc'[Self] = "baktruncate"
        /\ copy'[Self] = file[At]
        /\ UNCHANGED <<version, file, bak, step, text, result, runVars, cut,
                       crashes, reinstalls>>
  BY DEF BackupRead, At
<1>6. BackupTruncate(Self) =>
        /\ pc[Self] = "baktruncate" /\ pc'[Self] = "bakwrite"
        /\ bak' = [bak EXCEPT ![At] = Torn]
        /\ UNCHANGED <<version, file, step, text, copy, result, runVars, cut,
                       crashes, reinstalls>>
  BY DEF BackupTruncate, At
<1>7. BackupWrite(Self) =>
        /\ pc[Self] = "bakwrite" /\ pc'[Self] = "truncate"
        /\ \E x \in Written(bak[At], copy[Self]) :
             bak' = [bak EXCEPT ![At] = x]
        /\ UNCHANGED <<version, file, step, text, copy, result, runVars, cut,
                       crashes, reinstalls>>
  BY DEF BackupWrite, At
<1>8. Truncate(Self) =>
        /\ pc[Self] = "truncate" /\ pc'[Self] = "write"
        /\ file' = [file EXCEPT ![At] = Torn]
        /\ UNCHANGED <<version, bak, step, text, copy, result, runVars, cut,
                       crashes, reinstalls>>
  BY DEF Truncate, At
<1>9. Exit(Self) =>
        /\ pc[Self] # "idle" /\ pc'[Self] = "idle" /\ pc[Self] \notin Active
        /\ UNCHANGED <<version, file, bak, reinstalls, cut, crashes>>
  BY DEF Exit, Active
<1>10. Crash(Self) =>
         /\ pc[Self] # "idle" /\ pc'[Self] = "idle"
         /\ UNCHANGED <<version, file, bak, reinstalls>>
         /\ crashes \in Nat /\ crashes' = crashes + 1
         /\ cut \subseteq cut' /\ (pc[Self] = "bakwrite" => At \in cut')
  <2> HAVE Crash(Self)
  <2>1. cut' = IF pc[Self] = "bakwrite" THEN cut \cup {At} ELSE cut
    BY DEF Crash, At
  <2>2. pc[Self] # "idle" /\ pc'[Self] = "idle"
    BY DEF Crash, Active
  <2> QED
    BY <2>1, <2>2 DEF Crash
<1>11. Reinstall =>
         /\ pc[Self] = "idle" /\ pc'[Self] = "idle" /\ crashes' = crashes
         /\ version' \in Versions
         /\ file' = [f \in Files |-> Pristine]
         /\ reinstalls' = reinstalls + 1 /\ reinstalls \in Nat
  BY RenderAssumption DEF Reinstall, procVars
<1> HIDE SelfAssumption DEF TypeOK, StepInv
<1> QED
  BY <1>1, <1>2, <1>3, <1>4, <1>5, <1>6, <1>7, <1>8, <1>9, <1>10, <1>11

\* Where a call goes.
LEMMA GoesTo ==
  ASSUME TypeOK, StepInv, NEW n \in Nat, GoTo(Self, n)
  PROVE  /\ step'[Self] = n
         /\ pc'[Self] = IF n > Len(Plan) THEN "patched" ELSE "read"
         /\ n > Len(Plan) => result'[Self] = "ok"
BY SelfAssumption DEF GoTo, TypeOK, StepInv

\* The actions that go on to another entry.
LEMMA EntryMoves ==
  ASSUME TypeOK, StepInv
  PROVE  /\ ReadAndSkip(Self) =>
              /\ pc[Self] = "read"
              /\ \/ /\ Decision(Now(Self), file[At]) = "next"
                    /\ GoTo(Self, step[Self] + 1)
                 \/ /\ Decision(Now(Self), file[At]) = "nohaze"
                    /\ GoTo(Self, AfterHaze)
              /\ UNCHANGED <<version, file, bak, text, runVars, cut,
                             crashes, reinstalls>>
         /\ Write(Self) =>
              /\ pc[Self] = "write" /\ GoTo(Self, step[Self] + 1)
              /\ \E x \in Written(file[At], text[Self]) :
                   file' = [file EXCEPT ![At] = x]
              /\ UNCHANGED <<version, bak, text, runVars, cut, crashes, reinstalls>>
         /\ step[Self] \in Nat /\ AfterHaze \in Nat
<1>1. step[Self] \in Nat /\ AfterHaze \in Nat
  BY SelfAssumption, PlanFacts DEF StepInv
<1> QED
  BY <1>1 DEF ReadAndSkip, Write, At

\* The import, and the call that may follow it.
LEMMA ImportMoves ==
  ASSUME TypeOK, StepInv, Import(Self)
  PROVE  /\ pc[Self] = "patched"
         /\ loaded'[Self] = IF loaded[Self] = NotLoaded THEN file
                            ELSE loaded[Self]
         /\ \/ /\ pass[Self] < Len(Passes[program[Self]])
               /\ pc'[Self] = "read" /\ step'[Self] = 1
               /\ pass'[Self] = pass[Self] + 1
            \/ /\ ~(pass[Self] < Len(Passes[program[Self]]))
               /\ pc'[Self] = "run" /\ pass' = pass
         /\ result[Self] = "raised" =>
              Passes[program[Self]][pass[Self]] = "warns"
         /\ UNCHANGED <<version, file, bak, program, cut, crashes, reinstalls>>
<1> USE SelfAssumption DEF TypeOK, StepInv
<1>1. loaded'[Self] = IF loaded[Self] = NotLoaded THEN file ELSE loaded[Self]
  BY DEF Import
<1>2. CASE pass[Self] < Len(Passes[program[Self]])
  <2>1. Call(Self, pass[Self] + 1)
    BY <1>2 DEF Import
  <2>2. /\ pc'[Self] = "read" /\ step'[Self] = 1
        /\ pass'[Self] = pass[Self] + 1
    BY <2>1 DEF Call
  <2> QED
    BY <1>1, <1>2, <2>2 DEF Import
<1>3. CASE ~(pass[Self] < Len(Passes[program[Self]]))
  <2>1. pc' = [pc EXCEPT ![Self] = "run"] /\ pass' = pass
    BY <1>3 DEF Import
  <2> QED
    BY <1>1, <1>3, <2>1 DEF Import
<1> QED
  BY <1>2, <1>3

\* Of the same version the conditions on sources mean the same.
LEMMA Frames ==
  ASSUME version' = version
  PROVE  /\ Marked(file, 1)' <=> Marked(file', 1)
         /\ Marked(file, step[Self])' <=> Marked(file', step'[Self])
         /\ Marked(Target, step[Self] + 1)' <=> Marked(Target', step'[Self] + 1)
         /\ Marked(file, Len(Plan) + 1)' <=> Marked(file', Len(Plan) + 1)
         /\ Clean(file, 0)' <=> Clean(file', 0)
         /\ Clean(file, step[Self])' <=> Clean(file', step'[Self])
         /\ Clean(Target, step[Self] + 1)' <=> Clean(Target', step'[Self] + 1)
         /\ Doomed(file, 1)' <=> Doomed(file', 1)
         /\ Doomed(file, step[Self])' <=> Doomed(file', step'[Self])
         /\ Doomed(Target, step[Self] + 1)' <=> Doomed(Target', step'[Self] + 1)
         /\ step' = step => At' = At
<1>1. step' = step => At' = At
  BY DEF At, Now
<1>2. /\ Marked(file, 1)' <=> Marked(file', 1)
      /\ Marked(file, step[Self])' <=> Marked(file', step'[Self])
      /\ Marked(Target, step[Self] + 1)' <=> Marked(Target', step'[Self] + 1)
      /\ Marked(file, Len(Plan) + 1)' <=> Marked(file', Len(Plan) + 1)
  BY DEF Marked, Anchored
<1>3. /\ Clean(file, 0)' <=> Clean(file', 0)
      /\ Clean(file, step[Self])' <=> Clean(file', step'[Self])
      /\ Clean(Target, step[Self] + 1)' <=> Clean(Target', step'[Self] + 1)
  BY DEF Clean, Anchored
<1>4. /\ Doomed(file, 1)' <=> Doomed(file', 1)
      /\ Doomed(file, step[Self])' <=> Doomed(file', step'[Self])
      /\ Doomed(Target, step[Self] + 1)' <=> Doomed(Target', step'[Self] + 1)
  BY DEF Doomed, Anchored
<1> QED
  BY <1>1, <1>2, <1>3, <1>4

\* The types of what the process is at.
LEMMA AtFacts ==
  ASSUME TypeOK, StepInv
  PROVE  /\ version \in Versions
         /\ file \in [Files -> Texts] /\ text[Self] \in Texts
         /\ pc[Self] \in Active =>
              /\ step[Self] \in 1 .. Len(Plan) /\ step[Self] \in Nat \ {0}
              /\ Now(Self) = Plan[step[Self]] /\ At = Plan[step[Self]].file
              /\ At \in Files /\ file[At] \in Texts
              /\ Target \in [Files -> Texts] /\ Len(Plan) \in Nat
              /\ 1 \in 1 .. Len(Plan)
<1>1. ASSUME pc[Self] \in Active
      PROVE  /\ step[Self] \in 1 .. Len(Plan) /\ Plan[step[Self]].file \in Files
             /\ Len(Plan) \in Nat /\ Len(Plan) >= 1
  BY <1>1, SelfAssumption, EntryFacts, PlanLength DEF StepInv
<1> QED
  BY <1>1, SelfAssumption DEF TypeOK, StepInv, Now, At, Target

\* Writes that leave the entry, the text and the other sources alone leave the
\* sources as they will be.
LEMMA TargetFrame ==
  ASSUME TypeOK, StepInv, pc[Self] \in Active, UNCHANGED <<version, step, text>>,
         file' = file \/ file' = [file EXCEPT ![At] = Torn]
  PROVE  Target' = Target
<1>1. At' = At /\ At \in Files /\ file \in [Files -> Texts]
  BY AtFacts, Frames
<1>2. Target' = [file' EXCEPT ![At] = text[Self]]
  BY <1>1 DEF Target
<1> QED
  BY <1>1, <1>2 DEF Target

\* A source that was truncated and then written is the text; the others are as
\* they were.
LEMMA WrittenTarget ==
  ASSUME file[At] = Torn, Write(Self)
  PROVE  file' = Target
BY DEF Write, Written, At, Target

\* The sources carry the marks that a call at its entry relies on, and those
\* that it is about to write do: a call that ended has put them all there, or
\* raised because nothing can any more.
MarkedInv ==
  /\ Marked(file, 1)
  /\ pc[Self] \in Active => Marked(file, step[Self])
  /\ pc[Self] \in Writing => Marked(Target, step[Self] + 1)
  /\ pc[Self] = "write" => file[At] = Torn
  /\ pc[Self] = "patched" => result[Self] \in {"ok", "raised"}
  /\ pc[Self] = "patched" /\ result[Self] = "ok" => Marked(file, Len(Plan) + 1)
  /\ pc[Self] = "patched" /\ result[Self] = "raised" => Doomed(file, 1)

\* The steps of a single process.
LEMMA OneProcess ==
  ASSUME Procs = {Self}, [Next]_vars
  PROVE  \/ UNCHANGED vars \/ Reinstall
         \/ Start(Self)
         \/ ReadAndEdit(Self) \/ ReadAndSkip(Self) \/ ReadAndRaise(Self)
         \/ BackupExists(Self) \/ BackupRead(Self) \/ BackupTruncate(Self)
         \/ BackupWrite(Self) \/ Truncate(Self) \/ Write(Self)
         \/ Import(Self) \/ Exit(Self) \/ Crash(Self)
BY DEF Next, ProcStep

\* MarkedInv is inductive, one step per action.
LEMMA MarkedStep ==
  ASSUME Procs = {Self}, TypeOK, StepInv, MarkedInv, [Next]_vars
  PROVE  MarkedInv'
<1>1. CASE UNCHANGED vars
  <2>1. /\ UNCHANGED <<version, file, step, pc, text, result>> /\ Target' = Target
        /\ At' = At
    BY <1>1, Frames DEF vars, procVars, Target
  <2> QED
    BY <2>1, Frames DEF MarkedInv
<1>2. CASE Reinstall
  <2>1. Marked(file, 1)'
    <3>1. file' = [f \in Files |-> Pristine]
      BY <1>2 DEF Reinstall
    <3>2. ~Twice(Pristine) /\ \A e \in Edits : ~Has(Pristine, e)
      BY DEF Twice, Has, Pristine
    <3>3. /\ \A f \in Files : ~Twice(file'[f])
          /\ ~Has(file'["render"], "haze")
      BY <3>1, <3>2 DEF Files, Edits
    <3> QED
      BY <3>3 DEF Marked
  <2> QED
    BY <1>2, <2>1, Moves DEF MarkedInv, Active, Writing
<1>3. CASE Start(Self)
  BY <1>3, Moves, Frames DEF MarkedInv, Writing, Active
<1>4. CASE ReadAndEdit(Self)
  <2>1. /\ pc[Self] \in Active /\ pc'[Self] = "exists" /\ file' = file
        /\ step' = step /\ version' = version
        /\ Decision(Now(Self), file[At]) = "edit"
        /\ text'[Self] = Edited(Now(Self), file[At])
    BY <1>4, Moves DEF ReadAndEdit, At, Active
  <2>2. Target' = [file EXCEPT ![At] = Edited(Now(Self), file[At])]
    BY <2>1, Frames DEF Target
  <2>3. Marked(Target', step[Self] + 1)
    BY <2>1, <2>2, AtFacts, EditMarked DEF MarkedInv
  <2> QED
    BY <2>1, <2>3, Frames DEF MarkedInv
<1>5. CASE ReadAndSkip(Self)
  <2>1. /\ pc[Self] \in Active /\ file' = file /\ version' = version
    BY <1>5, EntryMoves DEF Active
  <2>2. PICK n \in Nat : GoTo(Self, n) /\ Marked(file, n) /\ n <= Len(Plan) + 1
                         /\ n >= 1
    <3>1. CASE Decision(Now(Self), file[At]) = "next" /\ GoTo(Self, step[Self] + 1)
      <4>1. Marked(file, step[Self] + 1)
        BY <2>1, <3>1, AtFacts, NextMarked DEF MarkedInv
      <4> QED
        BY <2>1, <3>1, <4>1, AtFacts
    <3>2. CASE Decision(Now(Self), file[At]) = "nohaze" /\ GoTo(Self, AfterHaze)
      <4>1. Marked(file, AfterHaze)
        BY <2>1, <3>2, AtFacts, NextMarked DEF MarkedInv
      <4>2. AfterHaze \in 1 .. Len(Plan)
        BY PlanLength
      <4> QED
        BY <2>1, <3>2, <4>1, <4>2, AtFacts
    <3> QED
      BY <1>5, <3>1, <3>2, EntryMoves
  <2>3. CASE n > Len(Plan)
    <3>1. n = Len(Plan) + 1 /\ pc'[Self] = "patched" /\ result'[Self] = "ok"
      BY <2>1, <2>2, <2>3, GoesTo, AtFacts
    <3> QED
      BY <2>1, <2>2, <3>1, Frames DEF MarkedInv, Active, Writing
  <2>4. CASE ~(n > Len(Plan))
    <3>1. step'[Self] = n /\ pc'[Self] = "read"
      BY <2>2, <2>4, GoesTo
    <3> QED
      BY <2>1, <2>2, <3>1, Frames DEF MarkedInv, Active, Writing
  <2> QED
    BY <2>3, <2>4
<1>6. CASE ReadAndRaise(Self)
  <2>1. /\ pc[Self] \in Active /\ pc'[Self] = "patched" /\ result'[Self] = "raised"
        /\ file' = file /\ version' = version
        /\ Decision(Now(Self), file[At]) = "raise"
    BY <1>6, Moves DEF ReadAndRaise, At, Active
  <2>2. Doomed(file, 1)
    BY <2>1, AtFacts, RaiseDoomed DEF MarkedInv
  <2> QED
    BY <2>1, <2>2, Frames DEF MarkedInv, Active, Writing
<1>7. CASE \/ BackupExists(Self) \/ BackupRead(Self) \/ BackupTruncate(Self)
           \/ BackupWrite(Self)
  <2>1. /\ pc[Self] \in Writing /\ pc'[Self] \in Writing \ {"write"}
        /\ UNCHANGED <<version, file, step, text>>
    BY <1>7, Moves DEF Writing, Active
  <2>2. Target' = Target
    BY <2>1, TargetFrame DEF Writing
  <2> QED
    BY <2>1, <2>2, Frames DEF MarkedInv, Writing, Active
<1>8. CASE Truncate(Self)
  <2>1. /\ pc[Self] \in Active /\ pc[Self] \in Writing /\ pc'[Self] = "write"
        /\ file' = [file EXCEPT ![At] = Torn]
        /\ UNCHANGED <<version, step, text>>
    BY <1>8, Moves DEF Writing, Active
  <2>2. Marked(file', step[Self])
    BY <2>1, AtFacts, TornMarked DEF MarkedInv
  <2>3. Marked(file', 1)
    BY <2>1, <2>2, AtFacts, MarkedAgain
  <2>4. Target' = Target
    BY <2>1, TargetFrame
  <2>5. file'[At'] = Torn
    BY <2>1, AtFacts, Frames
  <2> QED
    BY <2>1, <2>2, <2>3, <2>4, <2>5, Frames DEF MarkedInv
<1>9. CASE Write(Self)
  <2>1. /\ pc[Self] = "write" /\ GoTo(Self, step[Self] + 1) /\ version' = version
        /\ pc[Self] \in Active /\ pc[Self] \in Writing
    BY <1>9, EntryMoves DEF Active, Writing
  <2>2. file' = Target
    BY <1>9, <2>1, WrittenTarget DEF MarkedInv
  <2>3. Marked(file', step[Self] + 1) /\ Marked(file', 1)
    BY <2>1, <2>2, AtFacts, MarkedAgain DEF MarkedInv
  <2>4. CASE step[Self] + 1 > Len(Plan)
    <3>1. /\ step[Self] = Len(Plan) /\ pc'[Self] = "patched"
          /\ result'[Self] = "ok"
      BY <2>1, <2>4, AtFacts, GoesTo
    <3> QED
      BY <2>1, <2>3, <3>1, Frames DEF MarkedInv, Active, Writing
  <2>5. CASE ~(step[Self] + 1 > Len(Plan))
    <3>1. step'[Self] = step[Self] + 1 /\ pc'[Self] = "read"
      BY <2>1, <2>5, AtFacts, GoesTo
    <3> QED
      BY <2>1, <2>3, <3>1, Frames DEF MarkedInv, Active, Writing
  <2> QED
    BY <2>4, <2>5
<1>10. CASE Import(Self)
  BY <1>10, ImportMoves, Frames DEF MarkedInv, Active, Writing
<1>11. CASE Exit(Self) \/ Crash(Self)
  BY <1>11, Moves, Frames DEF MarkedInv, Active, Writing
<1> QED
  BY <1>1, <1>2, <1>3, <1>4, <1>5, <1>6, <1>7, <1>8, <1>9, <1>10, <1>11,
     OneProcess

\* Behind a call, before it and at its first entries the sources are clean in
\* the same sense.
LEMMA CleanOutside ==
  ASSUME NEW fs, NEW n, NEW m, Clean(fs, n),
         Outside(n), Outside(m)
  PROVE  Clean(fs, m)
BY DEF Clean, Outside

\* The start and the end of the plan are outside the edits of the haze.
LEMMA EndOutside == Outside(0) /\ Outside(1) /\ Outside(Len(Plan) + 1)
BY PlanFacts DEF Outside

\* While no run was killed the sources are clean, but for the one a call is
\* writing, and no call raises.
CleanInv ==
  crashes = 0 =>
    /\ pc[Self] \notin Active => Clean(file, 0)
    /\ pc[Self] \in Active /\ pc[Self] # "write" => Clean(file, step[Self])
    /\ pc[Self] \in Writing => Clean(Target, step[Self] + 1)
    /\ pc[Self] = "patched" => result[Self] = "ok"

\* CleanInv is inductive beside MarkedInv, one step per action.
LEMMA CleanInvStep ==
  ASSUME Procs = {Self}, TypeOK, StepInv, MarkedInv, CleanInv, [Next]_vars
  PROVE  CleanInv'
<1> SUFFICES ASSUME crashes' = 0
             PROVE  /\ pc'[Self] \notin Active => Clean(file, 0)'
                    /\ pc'[Self] \in Active /\ pc'[Self] # "write" =>
                         Clean(file, step[Self])'
                    /\ pc'[Self] \in Writing => Clean(Target, step[Self] + 1)'
                    /\ pc'[Self] = "patched" => result'[Self] = "ok"
  BY DEF CleanInv
<1>1. CASE UNCHANGED vars
  <2>1. /\ UNCHANGED <<version, file, step, pc, text, result, crashes>>
        /\ Target' = Target
    BY <1>1, Frames DEF vars, procVars, Target
  <2> QED
    BY <2>1, Frames DEF CleanInv
<1>2. CASE Reinstall
  <2>1. Clean(file, 0)'
    <3>1. file' = [f \in Files |-> Pristine]
      BY <1>2 DEF Reinstall
    <3>2. /\ Pristine # Torn /\ ~Twice(Pristine)
          /\ \A e \in Edits : Pristine[e] = 0
      BY RenderAssumption DEF Twice, Pristine, Counts
    <3> QED
      BY <3>1, <3>2 DEF Clean, Anchored, Files, Edits
  <2> QED
    BY <1>2, <2>1, Moves DEF Active, Writing
<1>3. CASE Start(Self)
  <2>1. /\ pc[Self] \notin Active /\ pc'[Self] = "read" /\ step'[Self] = 1
        /\ crashes' = crashes /\ file' = file /\ version' = version
    BY <1>3, Moves DEF Active
  <2>2. Clean(file, 1)
    BY <2>1, CleanOutside, EndOutside DEF CleanInv
  <2> QED
    BY <2>1, <2>2, Frames DEF Active, Writing
<1>4. CASE ReadAndEdit(Self)
  <2>1. /\ pc[Self] \in Active /\ pc[Self] = "read" /\ pc'[Self] = "exists"
        /\ file' = file /\ step' = step /\ version' = version /\ crashes' = crashes
        /\ Decision(Now(Self), file[At]) = "edit"
        /\ text'[Self] = Edited(Now(Self), file[At])
    BY <1>4, Moves DEF ReadAndEdit, At, Active
  <2>2. Target' = [file EXCEPT ![At] = Edited(Now(Self), file[At])]
    BY <2>1, Frames DEF Target
  <2>3. Clean(file, step[Self]) /\ Clean(Target', step[Self] + 1)
    BY <2>1, <2>2, AtFacts, CleanStep DEF CleanInv
  <2> QED
    BY <2>1, <2>3, Frames DEF Active, Writing
<1>5. CASE ReadAndSkip(Self)
  <2>1. /\ pc[Self] \in Active /\ pc[Self] = "read" /\ file' = file
        /\ version' = version /\ crashes' = crashes /\ Clean(file, step[Self])
    BY <1>5, EntryMoves DEF Active, CleanInv
  <2>2. PICK n \in Nat : /\ GoTo(Self, n) /\ Clean(file, n)
                         /\ n <= Len(Plan) + 1
    <3>1. CASE Decision(Now(Self), file[At]) = "next" /\ GoTo(Self, step[Self] + 1)
      <4>1. Clean(file, step[Self] + 1)
        BY <2>1, <3>1, AtFacts, CleanStep
      <4> QED
        BY <2>1, <3>1, <4>1, AtFacts
    <3>2. CASE Decision(Now(Self), file[At]) = "nohaze" /\ GoTo(Self, AfterHaze)
      <4>1. Clean(file, AfterHaze)
        BY <2>1, <3>2, AtFacts, NextMarked, CleanStep DEF MarkedInv
      <4>2. AfterHaze \in 1 .. Len(Plan)
        BY PlanLength
      <4> QED
        BY <2>1, <3>2, <4>1, <4>2, AtFacts
    <3> QED
      BY <1>5, <3>1, <3>2, EntryMoves
  <2>3. CASE n > Len(Plan)
    <3>1. n = Len(Plan) + 1 /\ pc'[Self] = "patched" /\ result'[Self] = "ok"
      BY <2>1, <2>2, <2>3, GoesTo, AtFacts
    <3>2. Clean(file, 0)
      BY <2>2, <3>1, CleanOutside, EndOutside
    <3> QED
      BY <2>1, <3>1, <3>2, Frames DEF Active, Writing
  <2>4. CASE ~(n > Len(Plan))
    <3>1. step'[Self] = n /\ pc'[Self] = "read"
      BY <2>2, <2>4, GoesTo
    <3> QED
      BY <2>1, <2>2, <3>1, Frames DEF Active, Writing
  <2> QED
    BY <2>3, <2>4
<1>6. CASE ReadAndRaise(Self)
  <2>1. /\ pc[Self] \in Active /\ pc[Self] = "read" /\ crashes' = crashes
        /\ Decision(Now(Self), file[At]) = "raise"
    BY <1>6, Moves DEF ReadAndRaise, At, Active
  <2>2. Clean(file, step[Self])
    BY <2>1 DEF CleanInv
  <2> QED
    BY <2>1, <2>2, AtFacts, CleanStep
<1>7. CASE \/ BackupExists(Self) \/ BackupRead(Self) \/ BackupTruncate(Self)
           \/ BackupWrite(Self)
  <2>1. /\ pc[Self] \in Writing \ {"write"} /\ pc'[Self] \in Writing \ {"write"}
        /\ UNCHANGED <<version, file, step, text, crashes>>
    BY <1>7, Moves DEF Writing, Active
  <2>2. Target' = Target
    BY <2>1, TargetFrame DEF Writing
  <2> QED
    BY <2>1, <2>2, Frames DEF CleanInv, Writing, Active
<1>8. CASE Truncate(Self)
  <2>1. /\ pc[Self] \in Active /\ pc[Self] \in Writing /\ pc'[Self] = "write"
        /\ file' = [file EXCEPT ![At] = Torn]
        /\ UNCHANGED <<version, step, text, crashes>>
    BY <1>8, Moves DEF Writing, Active
  <2>2. Target' = Target
    BY <2>1, TargetFrame
  <2> QED
    BY <2>1, <2>2, Frames DEF CleanInv, Active
<1>9. CASE Write(Self)
  <2>1. /\ pc[Self] = "write" /\ GoTo(Self, step[Self] + 1) /\ version' = version
        /\ pc[Self] \in Active /\ pc[Self] \in Writing /\ crashes' = crashes
    BY <1>9, EntryMoves DEF Active, Writing
  <2>2. file' = Target
    BY <1>9, <2>1, WrittenTarget DEF MarkedInv
  <2>3. Clean(file', step[Self] + 1)
    BY <2>1, <2>2 DEF CleanInv
  <2>4. CASE step[Self] + 1 > Len(Plan)
    <3>1. /\ step[Self] = Len(Plan) /\ pc'[Self] = "patched"
          /\ result'[Self] = "ok"
      BY <2>1, <2>4, AtFacts, GoesTo
    <3>2. Clean(file', 0)
      BY <2>3, <3>1, CleanOutside, EndOutside
    <3> QED
      BY <2>1, <3>1, <3>2, Frames DEF Active, Writing
  <2>5. CASE ~(step[Self] + 1 > Len(Plan))
    <3>1. step'[Self] = step[Self] + 1 /\ pc'[Self] = "read"
      BY <2>1, <2>5, AtFacts, GoesTo
    <3> QED
      BY <2>1, <2>3, <3>1, Frames DEF Active, Writing
  <2> QED
    BY <2>4, <2>5
<1>10. CASE Import(Self)
  <2>1. /\ pc[Self] \notin Active /\ file' = file /\ version' = version
        /\ crashes' = crashes /\ pc'[Self] \in {"read", "run"}
        /\ pc'[Self] = "read" => step'[Self] = 1
    BY <1>10, ImportMoves DEF Active
  <2>2. Clean(file, 0) /\ Clean(file, 1)
    BY <2>1, CleanOutside, EndOutside DEF CleanInv
  <2> QED
    BY <2>1, <2>2, Frames DEF Active, Writing
<1>11. CASE Exit(Self)
  BY <1>11, Moves, Frames DEF CleanInv, Active, Writing
<1>12. CASE Crash(Self)
  <2>1. crashes \in Nat /\ crashes' = crashes + 1
    BY <1>12 DEF Crash, TypeOK
  <2> QED
    BY <2>1
<1> QED
  BY <1>1, <1>2, <1>3, <1>4, <1>5, <1>6, <1>7, <1>8, <1>9, <1>10, <1>11, <1>12,
     OneProcess

\* Until a reinstallation a backup is pristine, torn or missing, and a file
\* without one is pristine; a call never writes a file that has none.  A backup
\* is torn while it is written, and for good where its writer was killed.
BackupInv ==
  reinstalls = 0 =>
    /\ \A f \in Files : /\ bak[f] \in {NoFile, Pristine, Torn}
                        /\ bak[f] = NoFile => file[f] = Pristine
                        /\ bak[f] = Torn =>
                             f \in cut \/ (pc[Self] = "bakwrite" /\ f = At)
    /\ pc[Self] \in {"bakread", "baktruncate"} => bak[At] = NoFile
    /\ pc[Self] \in {"baktruncate", "bakwrite"} => copy[Self] = Pristine
    /\ pc[Self] = "bakwrite" => bak[At] = Torn /\ file[At] = Pristine
    /\ pc[Self] \in {"truncate", "write"} => bak[At] # NoFile

\* BackupInv is inductive, one step per action.
LEMMA BackupStep ==
  ASSUME Procs = {Self}, TypeOK, StepInv, BackupInv, [Next]_vars
  PROVE  BackupInv'
<1> SUFFICES ASSUME reinstalls' = 0
             PROVE  /\ \A f \in Files :
                         /\ bak'[f] \in {NoFile, Pristine, Torn}
                         /\ bak'[f] = NoFile => file'[f] = Pristine
                         /\ bak'[f] = Torn =>
                              f \in cut' \/ (pc'[Self] = "bakwrite" /\ f = At')
                    /\ pc'[Self] \in {"bakread", "baktruncate"} =>
                         bak'[At'] = NoFile
                    /\ pc'[Self] \in {"baktruncate", "bakwrite"} =>
                         copy'[Self] = Pristine
                    /\ pc'[Self] = "bakwrite" =>
                         bak'[At'] = Torn /\ file'[At'] = Pristine
                    /\ pc'[Self] \in {"truncate", "write"} => bak'[At'] # NoFile
  BY DEF BackupInv, Pristine
<1>1. Torn # NoFile /\ Pristine # NoFile /\ Pristine # Torn
  BY RenderAssumption DEF Pristine, Counts
<1>2. bak \in [Files -> Texts \cup {NoFile, Outdated}] /\ file \in [Files -> Texts]
  BY DEF TypeOK
<1>3. CASE UNCHANGED vars
  BY <1>3, Frames DEF BackupInv, vars, procVars
<1>4. CASE Reinstall
  BY <1>4, Moves
<1>5. CASE \/ Start(Self) \/ ReadAndEdit(Self) \/ ReadAndRaise(Self)
           \/ Exit(Self)
  <2>1. /\ file' = file /\ bak' = bak /\ cut' = cut /\ reinstalls' = reinstalls
        /\ pc[Self] # "bakwrite"
        /\ pc'[Self] \in {"idle", "read", "exists", "patched"}
    BY <1>5, Moves DEF Active
  <2> QED
    BY <2>1 DEF BackupInv
<1>6. CASE Crash(Self)
  <2>1. /\ file' = file /\ bak' = bak /\ reinstalls' = reinstalls
        /\ cut \subseteq cut' /\ (pc[Self] = "bakwrite" => At \in cut')
        /\ pc'[Self] = "idle"
    BY <1>6, Moves
  <2> QED
    BY <2>1 DEF BackupInv
<1>7. CASE ReadAndSkip(Self)
  <2>1. /\ file' = file /\ bak' = bak /\ cut' = cut /\ reinstalls' = reinstalls
        /\ pc[Self] # "bakwrite"
        /\ \E n \in Nat : GoTo(Self, n)
    BY <1>7, EntryMoves
  <2>2. pc'[Self] \in {"read", "patched"}
    BY <2>1, GoesTo
  <2> QED
    BY <2>1, <2>2 DEF BackupInv
<1>8. CASE Import(Self)
  <2>1. /\ file' = file /\ bak' = bak /\ cut' = cut /\ reinstalls' = reinstalls
        /\ pc[Self] # "bakwrite" /\ pc'[Self] \in {"read", "run"}
    BY <1>8, ImportMoves
  <2> QED
    BY <2>1 DEF BackupInv
<1>9. CASE BackupExists(Self)
  <2>1. /\ UNCHANGED <<file, bak, cut, reinstalls>> /\ At' = At
        /\ pc[Self] = "exists"
        /\ pc'[Self] = IF bak[At] = NoFile THEN "bakread" ELSE "truncate"
    BY <1>9, Moves, Frames
  <2> QED
    BY <2>1 DEF BackupInv
<1>10. CASE BackupRead(Self)
  <2>1. /\ UNCHANGED <<file, bak, cut, reinstalls>> /\ At' = At /\ At \in Files
        /\ pc[Self] = "bakread" /\ pc'[Self] = "baktruncate"
        /\ copy'[Self] = file[At]
    BY <1>10, Moves, Frames, AtFacts DEF Active
  <2> QED
    BY <2>1 DEF BackupInv
<1>11. CASE BackupTruncate(Self)
  <2>1. /\ UNCHANGED <<file, copy, cut, reinstalls>> /\ At' = At /\ At \in Files
        /\ pc[Self] = "baktruncate" /\ pc'[Self] = "bakwrite"
        /\ bak' = [bak EXCEPT ![At] = Torn]
    BY <1>11, Moves, Frames, AtFacts DEF Active
  <2> QED
    BY <1>1, <1>2, <2>1 DEF BackupInv
<1>12. CASE BackupWrite(Self)
  <2>1. /\ UNCHANGED <<file, cut, reinstalls>> /\ At' = At /\ At \in Files
        /\ pc[Self] = "bakwrite" /\ pc'[Self] = "truncate"
        /\ \E x \in Written(bak[At], copy[Self]) : bak' = [bak EXCEPT ![At] = x]
    BY <1>12, Moves, Frames, AtFacts DEF Active
  <2>2. bak' = [bak EXCEPT ![At] = Pristine]
    BY <2>1 DEF BackupInv, Written
  <2> QED
    BY <1>1, <1>2, <2>1, <2>2 DEF BackupInv
<1>13. CASE Truncate(Self)
  <2>1. /\ UNCHANGED <<bak, cut, reinstalls>> /\ At' = At /\ At \in Files
        /\ pc[Self] = "truncate" /\ pc'[Self] = "write"
        /\ file' = [file EXCEPT ![At] = Torn]
    BY <1>13, Moves, Frames, AtFacts DEF Active
  <2> QED
    BY <1>2, <2>1 DEF BackupInv
<1>14. CASE Write(Self)
  <2>1. /\ UNCHANGED <<bak, cut, reinstalls>> /\ At \in Files /\ pc[Self] = "write"
        /\ \E n \in Nat : GoTo(Self, n)
        /\ \E x \in Written(file[At], text[Self]) :
             file' = [file EXCEPT ![At] = x]
    BY <1>14, EntryMoves, AtFacts DEF Active
  <2>2. pc'[Self] \in {"read", "patched"}
    BY <2>1, GoesTo
  <2> QED
    BY <1>2, <2>1, <2>2 DEF BackupInv
<1> QED
  BY <1>3, <1>4, <1>5, <1>7, <1>8, <1>9, <1>10, <1>11, <1>12, <1>13, <1>14,
     <1>6, OneProcess

\* What a program has imported is on disk when it runs.  A second call, which
\* comes after the import, finds every edit and changes nothing; or, where the
\* first one raised, sources that make it raise again and end the script.
LoadedInv ==
  /\ pc[Self] = "run" => loaded[Self] = file
  /\ pc[Self] = "idle" => loaded[Self] = NotLoaded
  /\ pc[Self] \in Active \cup {"patched"} /\ pass[Self] = 1 =>
       loaded[Self] = NotLoaded
  /\ pc[Self] \in Active \cup {"patched"} /\ pass[Self] # 1 =>
       \/ /\ loaded[Self] = file /\ AllEdits(file)
          /\ pc[Self] \in {"read", "patched"}
          /\ pc[Self] = "read" => Outside(step[Self])
          /\ pc[Self] = "patched" => result[Self] = "ok"
       \/ /\ program[Self] = "package_first"
          /\ pc[Self] = "read" => Doomed(file, step[Self])
          /\ pc[Self] \in Writing => Doomed(Target, step[Self] + 1)
          /\ pc[Self] = "patched" => result[Self] = "raised"

\* While a call writes after the import it is one that will raise.
LEMMA WritingDoomed ==
  ASSUME LoadedInv, pc[Self] \in Writing, pass[Self] # 1
  PROVE  program[Self] = "package_first" /\ Doomed(Target, step[Self] + 1)
BY DEF LoadedInv, Writing, Active

\* LoadedInv is inductive beside MarkedInv, one step per action.
LEMMA LoadedStep ==
  ASSUME Procs = {Self}, TypeOK, StepInv, MarkedInv, LoadedInv, [Next]_vars
  PROVE  LoadedInv'
<1>0. version' = version /\ file' = file => (AllEdits(file)' <=> AllEdits(file))
  BY DEF AllEdits, Needed
<1>1. CASE UNCHANGED vars
  <2>1. /\ UNCHANGED <<version, file, step, pc, text, result, loaded, pass, program>>
        /\ Target' = Target
    BY <1>1, Frames DEF vars, procVars, runVars, Target
  <2> QED
    BY <1>0, <2>1, Frames DEF LoadedInv, Outside
<1>2. CASE Exit(Self) \/ Crash(Self)
  <2>1. loaded' = [loaded EXCEPT ![Self] = NotLoaded]
    BY <1>2 DEF Exit, Crash
  <2>2. loaded'[Self] = NotLoaded /\ pc'[Self] = "idle"
    BY <1>2, <2>1, SelfAssumption, Moves DEF TypeOK
  <2> QED
    BY <2>2 DEF LoadedInv, Active, Writing
<1>3. CASE Reinstall
  <2>1. loaded' = loaded /\ pc' = pc /\ pc[Self] = "idle"
    BY <1>3, SelfAssumption DEF Reinstall, procVars, runVars
  <2> QED
    BY <2>1 DEF LoadedInv, Active, Writing
<1>4. CASE Start(Self)
  <2>1. /\ pc'[Self] = "read" /\ pass'[Self] = 1 /\ loaded' = loaded
        /\ pc[Self] = "idle"
    BY <1>4, Moves
  <2> QED
    BY <2>1 DEF LoadedInv
<1>5. ASSUME UNCHANGED <<version, runVars>>,
             pc[Self] \in Active, pc'[Self] \in Active \cup {"patched"},
             pass[Self] # 1 =>
               \/ /\ loaded[Self] = file' /\ AllEdits(file')
                  /\ pc'[Self] \in {"read", "patched"}
                  /\ pc'[Self] = "read" => Outside(step'[Self])
                  /\ pc'[Self] = "patched" => result'[Self] = "ok"
               \/ /\ program[Self] = "package_first"
                  /\ pc'[Self] = "read" => Doomed(file', step'[Self])
                  /\ pc'[Self] \in Writing => Doomed(Target', step'[Self] + 1)
                  /\ pc'[Self] = "patched" => result'[Self] = "raised"
      PROVE  LoadedInv'
  <2>1. /\ loaded' = loaded /\ pass' = pass /\ program' = program
        /\ pc'[Self] # "run" /\ pc'[Self] # "idle"
    BY <1>5 DEF runVars, Active
  <2>2. AllEdits(file)' <=> AllEdits(file')
    BY <1>5 DEF AllEdits, Needed
  <2> QED
    BY <1>5, <2>1, <2>2, Frames DEF LoadedInv, Outside
<1>6. ASSUME pc[Self] = "read", pass[Self] # 1, AllEdits(file), loaded[Self] = file,
             Outside(step[Self])
      PROVE  /\ Decision(Now(Self), file[At]) \in {"next", "nohaze"}
             /\ Decision(Now(Self), file[At]) = "next" =>
                  Outside(step[Self] + 1)
  <2>1. pc[Self] \in Active
    BY <1>6 DEF Active
  <2> QED
    BY <1>6, <2>1, AtFacts, CompleteSkips
<1>7. CASE ReadAndEdit(Self)
  <2>1. /\ pc[Self] = "read" /\ pc[Self] \in Active /\ pc'[Self] = "exists"
        /\ file' = file /\ step' = step /\ UNCHANGED <<version, runVars>>
        /\ Decision(Now(Self), file[At]) = "edit"
        /\ text'[Self] = Edited(Now(Self), file[At])
    BY <1>7, Moves DEF ReadAndEdit, At, Active
  <2>2. Target' = [file EXCEPT ![At] = Edited(Now(Self), file[At])]
    BY <2>1, Frames DEF Target
  <2>3. ASSUME pass[Self] # 1
        PROVE  program[Self] = "package_first" /\ Doomed(Target', step'[Self] + 1)
    <3>1. program[Self] = "package_first" /\ Doomed(file, step[Self])
      BY <1>6, <2>1, <2>3 DEF LoadedInv
    <3> QED
      BY <2>1, <2>2, <3>1, AtFacts, DoomedStays
  <2>4. pc'[Self] \in Active
    BY <2>1 DEF Active
  <2> QED
    BY <1>5, <2>1, <2>3, <2>4
<1>8. CASE ReadAndSkip(Self)
  <2>1. /\ pc[Self] = "read" /\ pc[Self] \in Active /\ file' = file
        /\ UNCHANGED <<version, runVars>>
    BY <1>8, EntryMoves DEF Active
  <2>2. PICK n \in Nat :
          /\ GoTo(Self, n) /\ n <= Len(Plan) + 1
          /\ n > Len(Plan) => Marked(file, Len(Plan) + 1) /\ n = Len(Plan) + 1
          /\ \/ /\ Decision(Now(Self), file[At]) = "next"
                /\ n = step[Self] + 1
             \/ /\ Decision(Now(Self), file[At]) = "nohaze"
                /\ n = AfterHaze
    <3>1. CASE Decision(Now(Self), file[At]) = "next" /\ GoTo(Self, step[Self] + 1)
      <4>1. Marked(file, step[Self] + 1)
        BY <2>1, <3>1, AtFacts, NextMarked DEF MarkedInv
      <4>2. step[Self] + 1 > Len(Plan) => step[Self] + 1 = Len(Plan) + 1
        BY <2>1, AtFacts
      <4>3. step[Self] + 1 \in Nat /\ step[Self] + 1 <= Len(Plan) + 1
        BY <2>1, AtFacts
      <4> QED
        BY <3>1, <4>1, <4>2, <4>3
    <3>2. CASE Decision(Now(Self), file[At]) = "nohaze" /\ GoTo(Self, AfterHaze)
      BY <3>2, PlanLength
    <3> QED
      BY <1>8, <3>1, <3>2, EntryMoves
  <2>3. /\ step'[Self] = n
        /\ pc'[Self] = IF n > Len(Plan) THEN "patched" ELSE "read"
        /\ n > Len(Plan) => result'[Self] = "ok"
    BY <2>2, GoesTo
  <2>4. pc'[Self] \in Active \cup {"patched"} /\ pc'[Self] \notin Writing
    BY <2>3 DEF Active, Writing
  <2>5. CASE /\ pass[Self] # 1 /\ loaded[Self] = file /\ AllEdits(file)
             /\ Outside(step[Self])
    <3>1. Outside(n)
      <4>1. Outside(AfterHaze)
        BY PlanFacts DEF Outside
      <4> QED
        BY <1>6, <2>1, <2>2, <2>5, <4>1
    <3> QED
      BY <1>5, <2>1, <2>3, <2>4, <2>5, <3>1
  <2>6. CASE pass[Self] # 1 /\ program[Self] = "package_first"
             /\ Doomed(file, step[Self])
    <3>1. Doomed(file, n)
      BY <2>1, <2>2, <2>6, AtFacts, DoomedStays
    <3>2. ~(n > Len(Plan))
      BY <2>2, <3>1, AtFacts, EndComplete
    <3> QED
      BY <1>5, <2>1, <2>3, <2>4, <2>6, <3>1, <3>2
  <2>7. CASE pass[Self] = 1
    BY <1>5, <2>1, <2>4, <2>7
  <2> QED
    BY <2>1, <2>5, <2>6, <2>7 DEF LoadedInv
<1>9. CASE ReadAndRaise(Self)
  <2>1. /\ pc[Self] = "read" /\ pc[Self] \in Active /\ pc'[Self] = "patched"
        /\ result'[Self] = "raised" /\ file' = file
        /\ UNCHANGED <<version, runVars>>
        /\ Decision(Now(Self), file[At]) = "raise"
    BY <1>9, Moves DEF ReadAndRaise, At, Active
  <2>2. pass[Self] # 1 => program[Self] = "package_first"
    BY <1>6, <2>1 DEF LoadedInv
  <2>3. "patched" \notin Writing
    BY DEF Writing, Active
  <2> QED
    BY <1>5, <2>1, <2>2, <2>3
<1>10. CASE \/ BackupExists(Self) \/ BackupRead(Self) \/ BackupTruncate(Self)
            \/ BackupWrite(Self) \/ Truncate(Self)
  <2>1. /\ pc[Self] \in Writing /\ pc[Self] \in Active
        /\ pc'[Self] \in Writing /\ pc'[Self] \in Active
        /\ pc'[Self] \notin {"read", "patched"}
        /\ UNCHANGED <<version, step, text, runVars>>
        /\ file' = file \/ file' = [file EXCEPT ![At] = Torn]
    BY <1>10, Moves DEF Writing, Active
  <2>2. Target' = Target
    BY <2>1, TargetFrame
  <2> QED
    BY <1>5, <2>1, <2>2, WritingDoomed
<1>11. CASE Write(Self)
  <2>1. /\ pc[Self] = "write" /\ GoTo(Self, step[Self] + 1)
        /\ pc[Self] \in Active /\ pc[Self] \in Writing
        /\ UNCHANGED <<version, runVars>>
    BY <1>11, EntryMoves DEF Active, Writing
  <2>2. file' = Target
    BY <1>11, <2>1, WrittenTarget DEF MarkedInv
  <2>3. step[Self] + 1 \in Nat /\ step[Self] + 1 <= Len(Plan) + 1
    BY <2>1, AtFacts
  <2>4. /\ step'[Self] = step[Self] + 1
        /\ pc'[Self] = IF step[Self] + 1 > Len(Plan) THEN "patched" ELSE "read"
    BY <2>1, <2>3, GoesTo
  <2>5. pc'[Self] \in Active \cup {"patched"} /\ pc'[Self] \notin Writing
    BY <2>4 DEF Active, Writing
  <2>6. ASSUME pass[Self] # 1
        PROVE  /\ program[Self] = "package_first" /\ pc'[Self] = "read"
               /\ Doomed(file', step'[Self])
    <3>1. program[Self] = "package_first" /\ Doomed(Target, step[Self] + 1)
      BY <2>1, <2>6, WritingDoomed
    <3>2. CASE step[Self] + 1 > Len(Plan)
      <4>1. step[Self] + 1 = Len(Plan) + 1
        BY <2>1, <3>2, AtFacts
      <4>2. Marked(Target, Len(Plan) + 1)
        BY <2>1, <4>1 DEF MarkedInv
      <4> QED
        BY <2>1, <3>1, <4>1, <4>2, AtFacts, EndComplete
    <3> QED
      BY <2>2, <2>4, <3>1, <3>2
  <2> QED
    BY <1>5, <2>1, <2>5, <2>6
<1>12. CASE Import(Self)
  <2>1. /\ pc[Self] = "patched" /\ UNCHANGED <<version, file, program>>
        /\ loaded'[Self] = IF loaded[Self] = NotLoaded THEN file ELSE loaded[Self]
        /\ result[Self] = "raised" =>
             Passes[program[Self]][pass[Self]] = "warns"
    BY <1>12, ImportMoves
  <2>2. /\ program[Self] \in {"library", "path_first", "package_first"}
        /\ pass[Self] = 1 \/ pass[Self] = 2
        /\ pass[Self] < Len(Passes[program[Self]]) =>
             pass[Self] = 1 /\ program[Self] # "library"
    <3>1. program[Self] \in {"library", "path_first", "package_first"}
      BY SelfAssumption, PassFacts DEF TypeOK
    <3>2. /\ Len(Passes[program[Self]]) = 1 \/ Len(Passes[program[Self]]) = 2
          /\ program[Self] = "library" => Len(Passes[program[Self]]) = 1
      BY <3>1, PassFacts
    <3>3. PICK m \in {1, 2} : /\ Len(Passes[program[Self]]) = m
                             /\ pass[Self] \in 1 .. m
      BY <3>2, SelfAssumption DEF TypeOK
    <3>4. pass[Self] = 1 \/ pass[Self] = 2
      BY <3>3
    <3>5. pass[Self] < m => pass[Self] = 1 /\ m # 1
      BY <3>3
    <3> QED
      BY <3>1, <3>2, <3>3, <3>4, <3>5
  <2>3. result[Self] = "ok" => AllEdits(file)
    BY <2>1, AtFacts, EndComplete DEF MarkedInv
  <2>4. loaded'[Self] = file
    <3>1. CASE pass[Self] = 1
      BY <2>1, <3>1 DEF LoadedInv
    <3>2. CASE pass[Self] # 1
      <4>1. pass[Self] = 2
        BY <2>2, <3>2
      <4>2. result[Self] # "raised" \/ program[Self] # "package_first"
        BY <2>1, <4>1, PassFacts
      <4>3. loaded[Self] = file
        BY <2>1, <3>2, <4>2 DEF LoadedInv
      <4> QED
        BY <2>1, <4>3
    <3> QED
      BY <3>1, <3>2
  <2>5. CASE pc'[Self] = "run"
    BY <2>1, <2>4, <2>5 DEF LoadedInv, Active, Writing
  <2>6. CASE pc'[Self] = "read"
    <3>1. /\ pass[Self] < Len(Passes[program[Self]]) /\ pass'[Self] = pass[Self] + 1
          /\ step'[Self] = 1
      BY <1>12, <2>6, ImportMoves
    <3>2. pass[Self] = 1 /\ pass'[Self] = 2 /\ program[Self] # "library"
      BY <2>2, <3>1, PassFacts
    <3>3. result[Self] = "raised" => program[Self] = "package_first"
      BY <2>1, <2>2, <3>2, PassFacts
    <3>4. CASE result[Self] = "ok"
      <4>1. AllEdits(file)'
        BY <1>0, <2>1, <2>3, <3>4
      <4> QED
        BY <2>1, <2>4, <2>6, <3>1, <3>2, <4>1 DEF LoadedInv, Active, Outside
    <3>5. CASE result[Self] = "raised"
      <4>1. Doomed(file, step[Self])'
        BY <2>1, <3>1, <3>5, Frames DEF MarkedInv
      <4> QED
        BY <2>1, <2>6, <3>2, <3>3, <3>5, <4>1 DEF LoadedInv, Writing
    <3> QED
      BY <2>1, <3>4, <3>5 DEF MarkedInv
  <2> QED
    BY <1>12, <2>5, <2>6, ImportMoves
<1> QED
  BY <1>1, <1>2, <1>3, <1>4, <1>7, <1>8, <1>9, <1>10, <1>11, <1>12, OneProcess

-----------------------------------------------------------------------------
(* What holds of runs one after the other. *)

\* The inductive invariant.
PatchInv ==
  TypeOK /\ StepInv /\ MarkedInv /\ CleanInv /\ BackupInv /\ LoadedInv

\* Fresh sources satisfy it.
LEMMA PatchStart == ProcessInit => PatchInv
<1> SUFFICES ASSUME ProcessInit PROVE PatchInv
  OBVIOUS
<1>1. /\ pc[Self] = "idle" /\ crashes = 0 /\ loaded[Self] = NotLoaded
      /\ \A f \in Files : file[f] = Pristine /\ bak[f] = NoFile
  BY SelfAssumption DEF ProcessInit, Init
<1>2. /\ Pristine # Torn /\ ~Twice(Pristine)
      /\ \A e \in Edits : Pristine[e] = 0 /\ ~Has(Pristine, e)
  BY RenderAssumption DEF Twice, Has, Pristine, Counts
<1>3. Marked(file, 1) /\ Clean(file, 0)
  BY <1>1, <1>2 DEF Marked, Clean, Anchored, Files, Edits
<1>4. MarkedInv /\ CleanInv /\ BackupInv /\ LoadedInv
  BY <1>1, <1>3, RenderAssumption
     DEF MarkedInv, CleanInv, BackupInv, LoadedInv, Active, Writing
<1> QED
  BY <1>4, TypeInit DEF PatchInv, ProcessInit

\* It holds in every state the program reaches.
LEMMA PatchAlways ==
  ASSUME Procs = {Self}
  PROVE  ProcessSpec => []PatchInv
<1>1. PatchInv /\ [ProcessNext]_<<vars, kernelVars>> => PatchInv'
  <2> SUFFICES ASSUME PatchInv, [ProcessNext]_<<vars, kernelVars>>
               PROVE  PatchInv'
    OBVIOUS
  <2>1. [Next]_vars
    BY ProcessIsPatch
  <2>2. TypeOK' /\ StepInv'
    BY <2>1, TypeStep DEF PatchInv
  <2>3. MarkedInv' /\ CleanInv'
    BY <2>1, MarkedStep, CleanInvStep DEF PatchInv
  <2>4. BackupInv' /\ LoadedInv'
    BY <2>1, BackupStep, LoadedStep DEF PatchInv
  <2> QED
    BY <2>2, <2>3, <2>4 DEF PatchInv
<1> QED
  BY <1>1, PatchStart, PTL DEF ProcessSpec

\* Where a call has ended without an exception the sources are complete.
LEMMA OkComplete ==
  ASSUME PatchInv, pc[Self] = "patched", result[Self] = "ok"
  PROVE  Complete
BY AtFacts, EndComplete DEF PatchInv, MarkedInv, Complete, AllEdits

\* A call of patch_render_kernel that ends without an exception leaves sources
\* that carry every edit, whatever earlier runs were killed in the middle of and
\* however often mujoco_warp was reinstalled, in any of its versions.
THEOREM SilentRunComplete ==
  ASSUME Procs = {Self}
  PROVE  ProcessSpec => []SilentRunIsComplete
<1>1. PatchInv => SilentRunIsComplete
  BY OkComplete DEF SilentRunIsComplete
<1> QED
  BY <1>1, PatchAlways, PTL

\* Runs that are not killed, and on the current layout runs after killed ones
\* that left no source truncated, end with complete sources.
THEOREM RunsComplete ==
  ASSUME Procs = {Self}
  PROVE  ProcessSpec => []EveryRunCompletes
<1>1. ASSUME PatchInv, pc[Self] = "patched",
             crashes = 0 \/ (~version.legacy /\ \A f \in Files : file[f] # Torn)
      PROVE  result[Self] = "ok"
  <2>1. CASE crashes = 0
    BY <1>1, <2>1 DEF PatchInv, CleanInv
  <2>2. CASE ~version.legacy /\ \A f \in Files : file[f] # Torn
    <3>1. ~Doomed(file, 1)
      BY <2>2 DEF Doomed
    <3> QED
      BY <1>1, <3>1 DEF PatchInv, MarkedInv
  <2> QED
    BY <1>1, <2>1, <2>2
<1>2. PatchInv => EveryRunCompletes
  BY <1>1, OkComplete DEF EveryRunCompletes
<1> QED
  BY <1>2, PatchAlways, PTL

\* No edit is made twice: on the earlier layout as long as no run was killed; on
\* the current one whatever was killed, unless that left the file that tells the
\* layout truncated.
THEOREM EditsOnce ==
  ASSUME Procs = {Self}
  PROVE  ProcessSpec => []AppliedOnceUnlessKilled
<1>1. PatchInv /\ ~version.legacy /\ file["io"] # Torn => AppliedOnce
  BY DEF PatchInv, MarkedInv, Marked, AppliedOnce
<1>2. ASSUME PatchInv, crashes = 0 PROVE AppliedOnce
  <2>1. CASE pc[Self] # "write"
    BY <1>2, <2>1 DEF PatchInv, CleanInv, Clean, AppliedOnce
  <2>2. CASE pc[Self] = "write"
    <3>1. /\ pc[Self] \in Active /\ pc[Self] \in Writing /\ file[At] = Torn
          /\ TypeOK /\ StepInv
      BY <1>2, <2>2 DEF PatchInv, MarkedInv, Active, Writing
    <3>2. /\ At \in Files /\ file \in [Files -> Texts]
          /\ \A f \in Files : ~Twice(Target[f])
      BY <1>2, <3>1, AtFacts DEF PatchInv, CleanInv, Clean
    <3>3. ASSUME NEW f \in Files PROVE ~Twice(file[f])
      BY <3>1, <3>2 DEF Target, Twice
    <3> QED
      BY <3>3 DEF AppliedOnce
  <2> QED
    BY <2>1, <2>2
<1>3. PatchInv => AppliedOnceUnlessKilled
  BY <1>1, <1>2 DEF AppliedOnceUnlessKilled
<1> QED
  BY <1>3, PatchAlways, PTL

\* Until mujoco_warp is reinstalled, a source that is patched or being written
\* has a pristine backup, but where a process was killed while it wrote that
\* very backup.
THEOREM Restorable ==
  ASSUME Procs = {Self}
  PROVE  ProcessSpec => []AlwaysRestorable
<1>1. ASSUME PatchInv, reinstalls = 0, NEW f \in Files, file[f] # Pristine
      PROVE  bak[f] = Pristine \/ f \in cut
  BY <1>1 DEF PatchInv, BackupInv
<1>2. PatchInv => AlwaysRestorable
  BY <1>1 DEF AlwaysRestorable
<1> QED
  BY <1>2, PatchAlways, PTL

\* A program that runs has imported what is on disk, whichever of the scripts it
\* is and whatever state the sources were in when it started.
THEOREM LoadedStays ==
  ASSUME Procs = {Self}
  PROVE  ProcessSpec => []LoadedIsOnDisk
<1>1. PatchInv /\ Procs = {Self} => LoadedIsOnDisk
  BY DEF PatchInv, LoadedInv, LoadedIsOnDisk
<1> QED
  BY <1>1, PatchAlways, PTL
=============================================================================
