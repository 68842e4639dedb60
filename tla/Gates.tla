------------------------------- MODULE Gates -------------------------------
(***************************************************************************)
(* The two gates that a pull request passes before it is merged:           *)
(* .github/bucket_scope_gate.py, which compares it with the base branch,   *)
(* and .github/neutrality_scan.py, which reads its files.  Git and the     *)
(* forge are external: branches are trees, a merge is three-way and file   *)
(* by file, every push resets the checks, and both are required.           *)
(*                                                                         *)
(* A file is one line and a line a sequence of characters, the case of     *)
(* which the scanner does not see.                                         *)
(***************************************************************************)
EXTENDS Integers, Sequences

CONSTANTS
    Paths,
    Blocked,            \* the paths that start with one of BLOCKED_PREFIXES
    Quoted,             \* the paths that git prints between quotes
    Scanned,            \* the paths with one of SCAN_SUFFIXES, not in .git/
    Lines,              \* what a file may hold
    Absent,             \* no file
    Secrets,            \* what NEUTRALITY_TERMS may be set to
    Unset,              \* or it is not set, or is no JSON
    Pulls,              \* pull requests
    MaxPushes           \* bound: on the pushes to a pull request

ASSUME PathsAssumption == Blocked \subseteq Paths /\ Scanned \subseteq Paths

ASSUME AbsentAssumption == Absent \notin Lines

ASSUME MaxPushesAssumption == MaxPushes \in Nat

Texts == Seq(STRING) \ {<<>>}

ASSUME LinesAssumption == Lines \subseteq Seq(STRING)

(* What is reserved are texts, and word boundaries stand at the ends of a  *)
(* word.                                                                   *)
ASSUME SecretsAssumption ==
    /\ Unset \notin Secrets
    /\ \A s \in Secrets :
         /\ s.substring \in Seq(Texts) /\ s.word \in Seq(Texts)
         /\ s.allow \subseteq Seq(STRING)
         /\ \A k \in DOMAIN s.word :
              s.word[k][1] # " " /\ s.word[k][Len(s.word[k])] # " "

VARIABLES
    main,               \* the tree of the base branch
    pull,               \* the pull requests
    secret              \* the one of Secrets that is in use

vars == <<main, pull, secret>>

Trees == [Paths -> Lines \cup {Absent}]

Pending == -1           \* a check that has not run on the present head

-----------------------------------------------------------------------------
(* bucket_scope_gate.py                                                    *)

(* Defect variant of ChangedFiles: git diff with two dots, from the tip of *)
(* the base branch.                                                        *)
ChangedFilesTwoDots(p) == {path \in Paths : pull[p].head[path] # main[path]}

(* Defect variant of ChangedFiles: only files that the base does not have. *)
ChangedFilesAdded(p) ==
    {path \in Paths : pull[p].base[path] = Absent /\ pull[p].head[path] # Absent}

(* changed_files: git diff --name-status base...head, from the merge base. *)
(* A renamed file is listed by its new path only.                          *)
ChangedFiles(p) == {path \in Paths : pull[p].head[path] # pull[p].base[path]}

(* Deletions are passed over; a quoted path does not start with a prefix.  *)
ScopeOffenders(p) ==
    {path \in ChangedFiles(p) : /\ pull[p].head[path] # Absent
                                /\ path \in Blocked \ Quoted}

-----------------------------------------------------------------------------
(* neutrality_scan.py                                                      *)

InWord(line, i) == i \in DOMAIN line /\ line[i] # " "

(* \b, before character i.                                                 *)
Boundary(line, i) == InWord(line, i - 1) # InWord(line, i)

TermAt(line, i, term) ==
    /\ i + Len(term) - 1 <= Len(line)
    /\ SubSeq(line, i, i + Len(term) - 1) = term

Terms(s) == s.substring \o s.word

(* Defect variant of Alternatives: word terms match inside words.          *)
AlternativesAnywhere(s, line, i) ==
    {k \in DOMAIN Terms(s) : TermAt(line, i, Terms(s)[k])}

(* The alternatives of the pattern that match at i, by their place in it.  *)
Alternatives(s, line, i) ==
    {k \in DOMAIN Terms(s) :
       /\ TermAt(line, i, Terms(s)[k])
       /\ k > Len(s.substring) =>
            Boundary(line, i) /\ Boundary(line, i + Len(Terms(s)[k]))}

Match(s, line, i) ==
    Terms(s)[CHOOSE k \in Alternatives(s, line, i) :
                 \A l \in Alternatives(s, line, i) : k <= l]

(* pattern.finditer: from the left, the first alternative, no overlap.     *)
Tokens(s, line) ==
    LET from[i \in 1..(Len(line) + 1)] ==
          IF i > Len(line) THEN {}
          ELSE IF Alternatives(s, line, i) = {} THEN from[i + 1]
          ELSE {Match(s, line, i)} \cup from[i + Len(Match(s, line, i))]
    IN  from[1]

PartOf(text, line) == \E i \in DOMAIN line : TermAt(line, i, text)

Carried(s, line) == {phrase \in s.allow : PartOf(phrase, line)}

(* Defect variant of LineOffenders: the phrase need not be on the line.    *)
LineOffendersAnyPhrase(s, line) ==
    {token \in Tokens(s, line) : ~\E phrase \in s.allow : PartOf(token, phrase)}

(* _line_offenders: a token passes if it is in a phrase the line carries.  *)
LineOffenders(s, line) ==
    {token \in Tokens(s, line) :
       ~\E phrase \in Carried(s, line) : PartOf(token, phrase)}

(* _load_config, scan and main: the exit code.                             *)
NeutralityExit(s, tree) ==
    IF s = Unset THEN 2
    ELSE IF Terms(s) = <<>> THEN 2
    ELSE IF \E path \in Scanned : /\ tree[path] # Absent
                                  /\ LineOffenders(s, tree[path]) # {}
    THEN 1 ELSE 0

-----------------------------------------------------------------------------

(* The reserved terms that stand at i in a line, as the schema defines     *)
(* them (neutrality_scan.py:13-20).                                        *)
ReservedAt(s, line, i) ==
    LET alone(text) ==
          /\ i = 1 \/ line[i - 1] = " "
          /\ i + Len(text) = Len(line) + 1 \/ line[i + Len(text)] = " "
    IN  {text \in {s.substring[k] : k \in DOMAIN s.substring} : TermAt(line, i, text)}
        \cup {text \in {s.word[k] : k \in DOMAIN s.word} :
                TermAt(line, i, text) /\ alone(text)}

OccursAt(s, line, i) == ReservedAt(s, line, i) # {}

(* A pull request from a tree, before anything is pushed or checked.       *)
PullFrom(tree, open) ==
    [open |-> open, base |-> tree, head |-> tree, written |-> {}, pushes |-> 0,
     scope |-> Pending, neutrality |-> Pending]

NoPull == PullFrom([path \in Paths |-> Absent], FALSE)

Init ==
    /\ secret \in Secrets
    /\ main \in Trees
    /\ \A path \in Scanned : main[path] # Absent =>
         ~\E i \in DOMAIN main[path] : OccursAt(secret, main[path], i)
    /\ pull = [p \in Pulls |-> NoPull]

Open(p) ==
    /\ pull[p] = NoPull
    /\ pull' = [pull EXCEPT ![p] = PullFrom(main, TRUE)]
    /\ UNCHANGED <<main, secret>>

(* A file is added, changed or removed.  written is history.               *)
Push(p) ==
    /\ pull[p].open
    /\ pull[p].pushes < MaxPushes
    /\ \E path \in Paths, line \in Lines \cup {Absent} :
         /\ line # pull[p].head[path]
         /\ pull' = [pull EXCEPT
              ![p].head[path] = line,
              ![p].written    = IF line = Absent THEN @ ELSE @ \cup {path},
              ![p].pushes     = @ + 1,
              ![p].scope      = Pending,
              ![p].neutrality = Pending]
    /\ UNCHANGED <<main, secret>>

(* A three-way merge, and whether there is one.                            *)
Merged(p) ==
    [path \in Paths |-> IF pull[p].head[path] = pull[p].base[path]
                        THEN main[path] ELSE pull[p].head[path]]

NoConflict(p) ==
    \A path \in Paths : \/ pull[p].head[path] = pull[p].base[path]
                        \/ main[path] \in {pull[p].base[path], pull[p].head[path]}

(* The base branch is merged into the pull request.                        *)
UpdateBranch(p) ==
    /\ pull[p].open
    /\ main # pull[p].base
    /\ NoConflict(p)
    /\ pull' = [pull EXCEPT ![p].head = Merged(p), ![p].base = main,
                            ![p].scope = Pending, ![p].neutrality = Pending]
    /\ UNCHANGED <<main, secret>>

ScopeGate(p) ==
    /\ pull[p].open
    /\ pull[p].scope = Pending
    /\ pull' = [pull EXCEPT ![p].scope = IF ScopeOffenders(p) = {} THEN 0 ELSE 1]
    /\ UNCHANGED <<main, secret>>

(* On the head, and with the secret or without; a failure may be run again.*)
NeutralityGate(p) ==
    /\ pull[p].open
    /\ pull[p].neutrality \in {Pending, 2}
    /\ \E s \in {secret, Unset} :
         pull' = [pull EXCEPT ![p].neutrality = NeutralityExit(s, pull[p].head)]
    /\ UNCHANGED <<main, secret>>

(* Defect variant of MergePull: a check that has not run does not block.   *)
MergePullEarly(p) ==
    /\ pull[p].open
    /\ pull[p].scope = 0
    /\ pull[p].neutrality \in {0, Pending}
    /\ NoConflict(p)
    /\ main' = Merged(p)
    /\ pull' = [pull EXCEPT ![p].open = FALSE]
    /\ UNCHANGED secret

MergePull(p) ==
    /\ pull[p].open
    /\ pull[p].scope = 0
    /\ pull[p].neutrality = 0
    /\ NoConflict(p)
    /\ main' = Merged(p)
    /\ pull' = [pull EXCEPT ![p].open = FALSE]
    /\ UNCHANGED secret

Next ==
    \E p \in Pulls : \/ Open(p) \/ Push(p) \/ UpdateBranch(p)
                     \/ ScopeGate(p) \/ NeutralityGate(p) \/ MergePull(p)

Spec == Init /\ [][Next]_vars

-----------------------------------------------------------------------------
(* Properties                                                              *)

(* The types; what is closed has not begun, or has passed both checks.     *)
TypeOK ==
    /\ main \in Trees
    /\ secret \in Secrets
    /\ pull \in [Pulls -> [open : BOOLEAN, base : Trees, head : Trees,
                           written : SUBSET Paths, pushes : 0..MaxPushes,
                           scope : {Pending, 0, 1},
                           neutrality : {Pending, 0, 1, 2}]]
    /\ \A p \in Pulls : \/ pull[p].open
                         \/ pull[p] = NoPull
                         \/ /\ pull[p].scope = 0
                            /\ pull[p].neutrality = 0

(* No merge adds or changes a file on a path that has moved out, however   *)
(* old the branch is and whatever was merged since it was checked          *)
(* (bucket_scope_gate.py:173-211, "nothing from engine/compiler/judge      *)
(* buckets merges"), but for paths that git quotes.                        *)
BlockedNeverGrows ==
    [][\A path \in Blocked \ Quoted : main'[path] \in {main[path], Absent}]_vars

(* A pull request is bounced for what was written in it, never for what    *)
(* the base branch has removed or changed since (33-35, 173-185).          *)
NoFalseBounce ==
    \A p \in Pulls :
        pull[p].scope = 1 => pull[p].written \cap (Blocked \ Quoted) # {}

(* Place i of a line is in a reserved term that stands there and is also   *)
(* part of an approved phrase that the line carries.                       *)
Excused(s, line, i) ==
    \E j \in 1..i : \E token \in ReservedAt(s, line, j) :
      /\ i < j + Len(token)
      /\ \E phrase \in Carried(s, line) : PartOf(token, phrase)

(* Wherever a reserved term begins on a line of the base branch, there is  *)
(* one that an approved phrase of this very line holds too: it, or one     *)
(* that stands over it.  So it is also after merges of heads that were     *)
(* scanned apart and after runs without the secret                         *)
(* (neutrality_scan.py:40-93, neutrality.yml:61-63).                       *)
MainNeutral ==
    Terms(secret) # <<>> =>
      \A path \in Scanned : main[path] # Absent =>
        \A i \in DOMAIN main[path] :
          OccursAt(secret, main[path], i) => Excused(secret, main[path], i)

(* The term that stands at i lies within an approved phrase on the line.   *)
WithinPhrase(s, line, i, text) ==
    \E phrase \in s.allow, j \in DOMAIN line :
      /\ TermAt(line, j, phrase)
      /\ j <= i /\ i + Len(text) <= j + Len(phrase)

(* "A match is exempt only when it is part of such a phrase": a reserved   *)
(* term on the base branch is one that an approved phrase carries there    *)
(* (neutrality_scan.py:19-21, 71-72).                                      *)
OnlyApproved ==
    Terms(secret) # <<>> =>
      \A path \in Scanned : main[path] # Absent =>
        \A i \in DOMAIN main[path] : \A text \in ReservedAt(secret, main[path], i) :
          WithinPhrase(secret, main[path], i, text)

(* A pull request is flagged only if one of its lines holds a reserved     *)
(* term that is not part of an approved phrase there                       *)
(* (neutrality_scan.py:66-76).                                             *)
NoFalseFlag ==
    \A p \in Pulls : pull[p].neutrality = 1 =>
        \E path \in Scanned :
          LET line == pull[p].head[path] IN
          /\ line # Absent
          /\ \E i \in DOMAIN line : \E text \in ReservedAt(secret, line, i) :
               ~WithinPhrase(secret, line, i, text)

=============================================================================
