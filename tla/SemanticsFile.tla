---------------------------- MODULE SemanticsFile ----------------------------
(***************************************************************************)
(* One semantics/*.yaml file and what the commands compute from it:        *)
(* `sqbyl introspect' drafts it and adds new columns (introspect.py,       *)
(* semantics_io.py), `sqbyl profile' refreshes its statistics (profile.py) *)
(* and the annotator fills in what it is sure of (annotate.py).            *)
(*                                                                         *)
(* A key is a column or TableNote, the table itself.  What a description   *)
(* says is left out; who wrote it is not.  The statistics of a column are  *)
(* the version of the data they were taken from.  A column the profiler    *)
(* could not read is left out, and a draft covers the file's columns.      *)
(* FaultyProfiled is a plausible slip; no specification uses it.           *)
(***************************************************************************)
EXTENDS Naturals, FiniteSets

CONSTANTS
  Columns,      \* columns the table may have
  TableNote,    \* the key of the table's own description
  Words,        \* content words a user may say
  NameWords,    \* the words in the name of each column
  Topical,      \* the words in the name of the table
  NumericText,  \* columns typed as text whose values are numbers
  Commented,    \* keys the database has a comment for
  Threshold,    \* auto_apply_threshold, as a confidence level
  MaxData,      \* bound: versions of the data
  NoFile        \* the file does not exist

Keys == Columns \cup {TableNote}

ASSUME SemanticsFileAssumption ==
  /\ TableNote \notin Columns /\ IsFiniteSet(Columns)
  /\ NameWords \in [Columns -> SUBSET Words]
  /\ Topical \subseteq Words
  /\ NumericText \subseteq Columns /\ Commented \subseteq Keys
  /\ Threshold \in 1..2
  /\ MaxData \in Nat \ {0}
  /\ NoFile \notin [notes : [Keys -> {"absent", "blank", "draft", "authored"}],
                    stats : [Columns -> 0..MaxData], off : SUBSET Keys]

\* off holds the keys marked `profile: false'; a column that is not in the file is
\* "absent"; 0 stands for no statistics.
File == [notes : [Keys -> {"absent", "blank", "draft", "authored"}],
         stats : [Columns -> 0..MaxData], off : SUBSET Keys]

InFile(f) == {c \in Columns : f.notes[c] # "absent"}

Described(f) == f.notes[TableNote] # "blank"

-----------------------------------------------------------------------------
(* Introspection                                                           *)

\* A comment of the database is carried through as the description.
Comment(k) == IF k \in Commented THEN "authored" ELSE "blank"

\* introspect and write_draft: a draft of the live columns, nothing profiled.
Drafted(live) ==
  [notes |-> [k \in Keys |-> IF k \in live \cup {TableNote} THEN Comment(k) ELSE "absent"],
   stats |-> [c \in Columns |-> 0],
   off   |-> {}]

\* sync_new_columns: live columns the file lacks are appended, nothing else moves.
Synced(f, live) ==
  [f EXCEPT !.notes = [k \in Keys |-> IF k \in live \ InFile(f) THEN Comment(k) ELSE @[k]]]

-----------------------------------------------------------------------------
(* Profiling                                                               *)

FaultyProfiled(f, data) ==
  [f EXCEPT !.stats = [c \in Columns |-> IF c \in InFile(f) THEN data ELSE @[c]]]

\* load_for_profiling, profile_table, merge_profiles: every column that is not opted
\* out gets the statistics of today; a table that is opted out is left as it is.
Profiled(f, data) ==
  IF TableNote \in f.off THEN f
  ELSE [f EXCEPT !.stats = [c \in Columns |-> IF c \in InFile(f) \ f.off THEN data ELSE @[c]]]

\* Profile.numeric_text: numbers stored as text, which only a profile can tell.
LooksNumeric(f) == {c \in NumericText : f.stats[c] # 0}

-----------------------------------------------------------------------------
(* Annotation                                                              *)

\* A draft: how sure the annotator is of the table and of its columns (2 is sure, 1 is
\* what a contested word is capped at, 0 is unsure or empty), and the synonyms.
Levels == 0..2
Cap    == 1

AnnotationDraft == [table : {0, 2}, columns : {0, 2}, synonyms : [Columns -> SUBSET Words]]

Vocabulary(d, c) == NameWords[c] \cup d.synonyms[c]

GenericDegree == 3

\* _detect_collisions: a synonym of one column is also a word of another, unless it
\* names the table or is shared by so many columns that it tells none apart.
Shared(f, d, a, b) ==
  {w \in ((d.synonyms[a] \cap Vocabulary(d, b)) \cup (d.synonyms[b] \cap Vocabulary(d, a)))
            \ Topical :
     Cardinality({c \in InFile(f) : w \in Vocabulary(d, c)}) < GenericDegree}

Contested(f, d) ==
  {a \in InFile(f) : \E b \in InFile(f) \ {a} : Shared(f, d, a, b) # {}}

\* flag_synonym_collisions: a contested column is capped.
Confidence(f, d, k) ==
  IF k = TableNote THEN d.table
  ELSE IF k \in Contested(f, d) /\ d.columns > Cap THEN Cap
  ELSE d.columns

\* reconcile_annotation: a draft fills a blank the annotator is sure of, and never a
\* column whose type and values disagree ...
Filled(f, d) ==
  {k \in {TableNote} \cup InFile(f) :
     /\ f.notes[k] = "blank"
     /\ Confidence(f, d, k) >= Threshold
     /\ k \notin LooksNumeric(f)}

\* ... and what stays blank becomes a proposal for a person.
Withheld(f, d) == {k \in Keys : f.notes[k] = "blank"} \ Filled(f, d)

\* merge_annotation, into the text that was read before the call.
Annotated(f, d) ==
  [f EXCEPT !.notes = [k \in Keys |-> IF k \in Filled(f, d) THEN "draft" ELSE @[k]]]

\* The tables init re-annotates: no description, or not the text that was stamped.
NeedsAnnotation(f, stamp) == ~(Described(f) /\ stamp = f)
=============================================================================
