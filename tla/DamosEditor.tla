----------------------------- MODULE DamosEditor ------------------------------
(***************************************************************************)
(* The editor of OpenDAMOS recipes (damos_editor_panel.cpp and its page of *)
(* modifications, damos_editor_panel_automods.cpp), with the files that it *)
(* reads and writes (OpenDamos.cpp, OpenDamosSerialize.cpp).               *)
(*                                                                         *)
(* Abstractions.  The two pages, characteristics and modifications, work   *)
(* alike: a table, the row selected and a form of its fields.  A row is    *)
(* its type, a value for all the fields that the form shows, and whether   *)
(* it has fields that no form shows, the addresses of axes apart.  A table *)
(* keeps its selection when its rows are set again, tells of a selection   *)
(* only when it changes, and selects the row before when the one selected  *)
(* is removed at the end.  The user selects rows and does not unselect.    *)
(***************************************************************************)
EXTENDS Integers, Sequences, SequencesExt

CONSTANTS
  Fields,         \* values of the fields that a form shows
  RecipeFiles,    \* recipes on disk: by path, the rows of both pages
  MaxRows,        \* bound: rows of a table
  MaxRecipeSteps  \* bound: operations

RowTypes == {"map", "value", "unknown", "pattern", "address"}
Pages == {"entries", "mods"}
TypesOf(t) == IF t = "entries" THEN {"map", "value"} ELSE {"pattern", "address"}

ASSUME RecipeAssumption ==
  /\ Fields # {} /\ MaxRows \in Nat /\ MaxRecipeSteps \in Nat
  /\ \A p \in DOMAIN RecipeFiles, t \in Pages :
       /\ RecipeFiles[p][t]
            \in Seq([field : Fields, type : TypesOf(t) \cup {"unknown"}, apart : BOOLEAN])
       /\ Len(RecipeFiles[p][t]) <= MaxRows

VARIABLES
  recipe,         \* m_recipe: the rows of each page
  recipeFiles,    \* by path: its rows, or CutFile
  path,           \* m_path, or NoPath
  dirty,          \* m_dirty
  picked,         \* the row selected in each table, from 1; 0 for none
  form,           \* what each form shows: [field, type]
  behind,         \* pages whose table kept its selection over other rows
  trusted,        \* no save failed and no search was in vain since the last opening or save
  recipeSteps

damosVars == <<recipe, recipeFiles, path, dirty, picked, form, behind, trusted, recipeSteps>>

NoPath == "unsaved"
CutFile == [entries |-> <<>>, mods |-> <<>>, cut |-> TRUE]
Blank == "blank"
FirstType(t) == IF t = "entries" THEN "map" ELSE "pattern"

\* loadCurrentToForm and loadCurrentAutoModToForm.  An unknown type shows as the first one; with
\* no row, the form of characteristics keeps its lists.
Loaded(t, rows, k, f) ==
  IF k = 0 THEN [field |-> Blank, type |-> IF t = "entries" THEN f.type ELSE "pattern"]
  ELSE [field |-> rows[k].field,
        type |-> IF rows[k].type = "unknown" THEN FirstType(t) ELSE rows[k].type]

\* writeFormToCurrent and writeAutoModFormToCurrent: the axes are made again.
RowOf(f) == [field |-> f.field, type |-> f.type, apart |-> FALSE]

\* serializeRecipe, then parseRecipe: what has no type comes back as a value, or without what it
\* searches and writes.
Stored(r) ==
  [t \in Pages |->
     [i \in DOMAIN r[t] |->
        IF r[t][i].type # "unknown" THEN r[t][i]
        ELSE IF t = "entries" THEN [r[t][i] EXCEPT !.type = "value"]
        ELSE [r[t][i] EXCEPT !.field = Blank]]]

DamosInit ==
  /\ recipe = [t \in Pages |-> <<>>] /\ recipeFiles = RecipeFiles /\ path = NoPath
  /\ dirty = FALSE /\ picked = [t \in Pages |-> 0]
  /\ form = [t \in Pages |-> [field |-> Blank, type |-> FirstType(t)]]
  /\ behind = {} /\ trusted = TRUE /\ recipeSteps = 0

OneStep == recipeSteps < MaxRecipeSteps /\ recipeSteps' = recipeSteps + 1
Kept == UNCHANGED <<recipeFiles, path>>

\* rebuildEntryTable and rebuildAutoModTable, then selectRow(k): a table that loses the row
\* selected selects the last one and tells; one that has row k selected does not tell.
Select(t, rows, k, f) ==
  IF k # 0 /\ picked[t] = k THEN f ELSE Loaded(t, rows, k, f)
StaysBehind(t, rows, k) == k # 0 /\ picked[t] = k /\ (t \in behind \/ rows # recipe[t])

\* Row k of the page t is selected over the rows that it has now.
SetRows(t, rows, k) ==
  /\ recipe' = [recipe EXCEPT ![t] = rows]
  /\ form' = [form EXCEPT ![t] = Select(t, rows, k, @)]
  /\ picked' = [picked EXCEPT ![t] = k]
  /\ behind' = IF StaysBehind(t, rows, k) THEN behind \cup {t} ELSE behind \ {t}

\* setRecipe: the first row of each page.
SetRecipe(r, p) ==
  LET first(t) == IF r[t] = <<>> THEN 0 ELSE 1
  IN /\ recipe' = r /\ path' = p /\ dirty' = FALSE /\ trusted' = TRUE
     /\ picked' = [t \in Pages |-> first(t)]
     /\ form' = [t \in Pages |-> Select(t, r[t], first(t), form[t])]
     /\ behind' = {t \in Pages : StaysBehind(t, r[t], first(t))}

-----------------------------------------------------------------------------
(* The file of the recipe. *)

\* The button "Nouveau", whatever the answer about unsaved changes was, and the proposal for a
\* ROM whose ECU has no recipe.
NewEmptyRecipe ==
  /\ OneStep /\ SetRecipe([t \in Pages |-> <<>>], NoPath) /\ UNCHANGED recipeFiles

\* openRecipeFile does not ask; a file that was cut is refused.
OpenRecipeFile ==
  /\ OneStep
  /\ \E p \in DOMAIN recipeFiles :
       recipeFiles[p] # CutFile /\ SetRecipe([t \in Pages |-> recipeFiles[p][t]], p)
  /\ UNCHANGED recipeFiles

\* saveRecipe to p: it cannot be opened, is cut, or is written.
SaveTo(p) ==
  /\ path' = p /\ UNCHANGED <<recipe, picked, form, behind>>
  /\ \/ recipeFiles' \in {recipeFiles, [recipeFiles EXCEPT ![p] = CutFile]}
        /\ trusted' = FALSE /\ UNCHANGED dirty
     \/ recipeFiles' = [recipeFiles EXCEPT ![p] = Stored(recipe)] /\ dirty' = FALSE /\ trusted' = TRUE

\* saveRecipe, and saveRecipeAs when there is no path: the path is taken before the file is.
SaveRecipe == OneStep /\ path # NoPath /\ SaveTo(path)
SaveRecipeAs == OneStep /\ \E p \in DOMAIN recipeFiles : SaveTo(p)

\* The ECU of the document, when nothing was begun; the user types another one.
OnEcuChanged ==
  /\ OneStep /\ recipe["entries"] = <<>> /\ path = NoPath /\ dirty' = TRUE
  /\ Kept /\ UNCHANGED <<recipe, picked, form, behind, trusted>>

-----------------------------------------------------------------------------
(* Rows and forms. *)

OnSelectionChanged ==
  /\ \E t \in Pages : \E k \in DOMAIN recipe[t] :
       /\ k # picked[t] /\ SetRows(t, recipe[t], k)
  /\ Kept /\ UNCHANGED <<dirty, trusted, recipeSteps>>

\* Every change of a field writes the whole form.
EditForm(t, f) ==
  /\ form' = [form EXCEPT ![t] = f]
  /\ recipe' = IF picked[t] = 0 THEN recipe ELSE [recipe EXCEPT ![t][picked[t]] = RowOf(f)]
  /\ behind' = behind \ {t} /\ dirty' = TRUE
  /\ Kept /\ UNCHANGED <<picked, trusted>>

OnFormChanged ==
  /\ OneStep
  /\ \E t \in Pages, f \in [field : Fields \cup {Blank}, type : RowTypes] :
       f.type \in TypesOf(t) /\ f # form[t] /\ EditForm(t, f)

\* captureFingerprintHere: the fields are those of the ROM.
CaptureFingerprintHere ==
  /\ OneStep /\ picked["entries"] # 0
  /\ \E v \in Fields : v # form["entries"].field
                       /\ EditForm("entries", [form["entries"] EXCEPT !.field = v])

\* onAddEntry and onAddAutoMod
NewRow(t) == [field |-> CHOOSE v \in Fields : TRUE, type |-> FirstType(t), apart |-> FALSE]
OnAdd ==
  /\ OneStep
  /\ \E t \in Pages : /\ Len(recipe[t]) < MaxRows
                      /\ SetRows(t, Append(recipe[t], NewRow(t)), Len(recipe[t]) + 1)
  /\ dirty' = TRUE /\ Kept /\ UNCHANGED trusted

\* onDuplicateEntry and onDuplicateAutoMod
OnDuplicate ==
  /\ OneStep
  /\ \E t \in Pages : /\ picked[t] # 0 /\ Len(recipe[t]) < MaxRows
                      /\ SetRows(t, Append(recipe[t], recipe[t][picked[t]]), Len(recipe[t]) + 1)
  /\ dirty' = TRUE /\ Kept /\ UNCHANGED trusted

\* A slip: a deletion is no change.
OnDeleteUntold ==
  /\ OneStep
  /\ \E t \in Pages :
       /\ picked[t] # 0
       /\ LET rows == RemoveAt(recipe[t], picked[t])
          IN SetRows(t, rows, IF picked[t] > Len(rows) THEN Len(rows) ELSE picked[t])
  /\ Kept /\ UNCHANGED <<dirty, trusted>>

\* onDeleteEntry and onDeleteAutoMod: the row that takes the place, or the last one.
OnDelete ==
  /\ OneStep
  /\ \E t \in Pages :
       /\ picked[t] # 0
       /\ LET rows == RemoveAt(recipe[t], picked[t])
          IN SetRows(t, rows, IF picked[t] > Len(rows) THEN Len(rows) ELSE picked[t])
  /\ dirty' = TRUE /\ Kept /\ UNCHANGED trusted

\* detectFromRom: a search in vain clears the mark of unsaved changes.
DetectFromRom ==
  /\ OneStep
  /\ \E found \in 0..MaxRows :
       /\ found + Len(recipe["entries"]) <= MaxRows
       /\ recipe' = [recipe EXCEPT !["entries"] = @ \o [i \in 1..found |-> NewRow("entries")]]
       /\ dirty' = (found > 0) /\ trusted' = (trusted /\ (found > 0 \/ ~dirty))
  /\ Kept /\ UNCHANGED <<picked, form, behind>>

DamosNext ==
  \/ NewEmptyRecipe \/ OpenRecipeFile \/ SaveRecipe \/ SaveRecipeAs \/ OnEcuChanged
  \/ OnSelectionChanged \/ OnFormChanged \/ CaptureFingerprintHere
  \/ OnAdd \/ OnDuplicate \/ OnDelete \/ DetectFromRom

-----------------------------------------------------------------------------
(* Properties. *)

DamosTypeOK ==
  /\ \A t \in Pages : /\ picked[t] \in 0..Len(recipe[t]) /\ Len(recipe[t]) <= MaxRows
                      /\ form[t].field \in Fields \cup {Blank} /\ form[t].type \in TypesOf(t)
  /\ path \in DOMAIN recipeFiles \cup {NoPath} /\ {dirty, trusted} \subseteq BOOLEAN
  /\ behind \subseteq Pages /\ recipeSteps \in 0..MaxRecipeSteps

\* The form shows the row that is selected, which the next change of a field will write, unless
\* the table kept its selection over other rows (loadCurrentToForm, damos_editor_panel.cpp:492).
FormInStep ==
  \A t \in Pages \ behind :
    picked[t] # 0 => form[t] = Loaded(t, recipe[t], picked[t], form[t])

\* A recipe that is not marked as changed is the one of its file.
RecipeMarked ==
  trusted /\ ~dirty /\ path # NoPath => Stored(recipeFiles[path]) = Stored(recipe)

\* The two exceptions come from these operations alone: a table keeps its selection over other
\* rows when a row is deleted or a file opened, never when a row is added, copied or selected;
\* and the mark is lost by a search or a save, never by a change (damos_editor_panel.cpp:607).
ExceptionsArise ==
  [][/\ behind' \subseteq behind \/ OnDelete \/ OpenRecipeFile
     /\ trusted => trusted' \/ DetectFromRom \/ SaveRecipe \/ SaveRecipeAs]_damosVars
=============================================================================
