---------------------------- MODULE MigrationScan ----------------------------
(***************************************************************************)
(* `scan_migrations`: the lint for CREATE POLICY statements without WITH    *)
(* CHECK, over the .sql files of a directory.  A file is a sequence of      *)
(* tokens, the words and characters that the scanner tells apart; a phrase  *)
(* such as "CREATE POLICY" is one token when a single space separates its   *)
(* words, the only spelling that the scanner recognises.                    *)
(***************************************************************************)
EXTENDS Naturals, FiniteSets, Sequences, SequencesExt

CONSTANTS Tokens,      \* the tokens that files are made of
          MaxTokens,   \* bound: tokens in all files together
          Paths,       \* bound: directory entries, numbered in path order
          MaxSnippet,  \* MAX of shorten, in bytes
          Unreadable   \* in place of the body of a file that cannot be read

\* "FOR SELECT" stands for "FOR DELETE" too, which is skipped in the same way,
\* "word" for any other text, "wide" for a character of two bytes.
AllTokens == {"CREATE POLICY", "FOR SELECT", "WITH CHECK",
              "--", ";", "space", "newline", "word", "wide"}

ASSUME ScanAssumption ==
    /\ Tokens \subseteq AllTokens
    /\ MaxTokens \in Nat /\ Paths \in Nat /\ MaxSnippet \in Nat

Whitespace == {"space", "newline"}
Bytes(token) == IF token = "wide" THEN 2 ELSE 1

\* The ways to cut n tokens into one body per path.
Cuts(n) == {c \in [0 .. Paths -> 0 .. n] :
                c[0] = 0 /\ c[Paths] = n /\ \A p \in 1 .. Paths : c[p - 1] <= c[p]}

VARIABLES
    dir,      \* dir[p]: a directory entry; sql says that it is a .sql file
    queue,    \* the files to be scanned, in the order of their paths
    file,     \* the file being scanned, 0 between files
    text,     \* its stripped text, as positions in its body
    at,       \* where the loop of split_statements is in text
    start, line_at_start, current_line,  \* its variables; start = 0 is None
    out,      \* the lints
    outcome   \* "scanning", then "ok", "error" or "panic"

loopVars == <<text, at, start, line_at_start, current_line>>
vars == <<dir, queue, file, loopVars, out, outcome>>

Body == dir[file].body

-----------------------------------------------------------------------------
\* S listed in ascending order, as the only member of a set.
Ascending(S) ==
    {q \in [1 .. Cardinality(S) -> S] :
        Range(q) = S /\ \A i, j \in DOMAIN q : i < j => q[i] < q[j]}

\* Position k is on the line that begins at position i.
OnLine(body, i, k) ==
    /\ i = 1 \/ body[i - 1] = "newline"
    /\ \A m \in i .. k - 1 : body[m] # "newline"

\* Wrong: the newline that ends the comment goes with it.
strip_sql_comments_joins(body) ==
    {k \in DOMAIN body :
        \E i \in 1 .. k : OnLine(body, i, k) /\ \A m \in i .. k : body[m] # "--"}

\* The positions that are left of a body: of each line, those in front of its
\* first "--", and its newline.
strip_sql_comments(body) ==
    {k \in DOMAIN body :
        \/ body[k] = "newline"
        \/ \E i \in 1 .. k : OnLine(body, i, k) /\ \A m \in i .. k : body[m] # "--"}

\* The statement text[first .. last] calls for a lint.
Flagged(first, last) ==
    LET upper == {Body[text[k]] : k \in first .. last}
    IN  /\ "CREATE POLICY" \in upper
        /\ "FOR SELECT" \notin upper
        /\ "WITH CHECK" \notin upper

\* A run of whitespace becomes its last character, and none ends the statement.
collapse_ws(s) ==
    LET Kept(k) == \/ s[k] \notin Whitespace
                   \/ k < Len(s) /\ s[k + 1] \notin Whitespace
        kept == SelectSeq([k \in DOMAIN s |-> k], Kept)
    IN  [i \in DOMAIN kept |-> s[kept[i]]]

\* The slice s[..MAX] panics when MAX bytes do not end with a character.
shorten_panics(s) ==
    LET Size(k) == FoldLeft(LAMBDA n, token : n + Bytes(token), 0, SubSeq(s, 1, k))
    IN  Size(Len(s)) > MaxSnippet /\ \A k \in DOMAIN s : Size(k) # MaxSnippet

\* scan_sql's treatment of one statement that begins on a line.
Lint(first, last, line) ==
    IF ~Flagged(first, last) THEN UNCHANGED <<out, outcome>>
    ELSE IF shorten_panics(collapse_ws([k \in 1 .. last + 1 - first |->
                                            Body[text[first + k - 1]]]))
         THEN outcome' = "panic" /\ UNCHANGED out
    ELSE /\ out' = Append(out, [file |-> file, line |-> line, stmt |-> text[first]])
         /\ UNCHANGED outcome

-----------------------------------------------------------------------------
\* Wrong: takes directories and other files too.
scan_migrations_everything == queue = [p \in 1 .. Paths |-> p]

\* The .sql files of dir, sorted.
SqlFiles == {p \in 1 .. Paths : dir[p].sql}
scan_migrations == queue \in Ascending(SqlFiles)

Init ==
    /\ \E n \in 0 .. MaxTokens :
          \E cut \in Cuts(n), tokens \in [1 .. n -> Tokens],
             sql, readable \in [1 .. Paths -> BOOLEAN] :
             dir = [p \in 1 .. Paths |->
                [sql |-> sql[p],
                 body |-> IF readable[p] THEN SubSeq(tokens, cut[p - 1] + 1, cut[p])
                          ELSE Unreadable]]
    /\ scan_migrations
    /\ file = 0 /\ text = <<>> /\ at = 1
    /\ start = 0 /\ line_at_start = 1 /\ current_line = 1
    /\ out = <<>> /\ outcome = "scanning"

\* Wrong: what cannot be read is skipped.
ReadFile_skips ==
    /\ outcome = "scanning" /\ file = 0 /\ queue # <<>>
    /\ queue' = Tail(queue)
    /\ IF dir[Head(queue)].body = Unreadable
       THEN UNCHANGED <<file, loopVars, out, outcome>>
       ELSE /\ file' = Head(queue)
            /\ text' \in Ascending(strip_sql_comments(dir[Head(queue)].body))
            /\ at' = 1 /\ start' = 0 /\ line_at_start' = 1 /\ current_line' = 1
            /\ UNCHANGED <<out, outcome>>
    /\ UNCHANGED dir

ReadFile ==
    /\ outcome = "scanning" /\ file = 0 /\ queue # <<>>
    /\ queue' = Tail(queue)
    /\ IF dir[Head(queue)].body = Unreadable
       THEN outcome' = "error" /\ UNCHANGED <<file, loopVars, out>>
       ELSE /\ file' = Head(queue)
            /\ text' \in Ascending(strip_sql_comments(dir[Head(queue)].body))
            /\ at' = 1 /\ start' = 0 /\ line_at_start' = 1 /\ current_line' = 1
            /\ UNCHANGED <<out, outcome>>
    /\ UNCHANGED dir

\* One character of the loop of split_statements.
split_statements ==
    /\ outcome = "scanning" /\ file # 0 /\ at <= Len(text)
    /\ LET ch == Body[text[at]]
           opens == start = 0 /\ ch \notin Whitespace
           s == IF opens THEN at ELSE start
           line == IF opens THEN current_line ELSE line_at_start
       IN  /\ IF ch = ";"
              THEN start' = 0 /\ Lint(s, at - 1, line)
              ELSE start' = s /\ UNCHANGED <<out, outcome>>
           /\ line_at_start' = line
           /\ current_line' = IF ch = "newline" THEN current_line + 1 ELSE current_line
    /\ at' = at + 1
    /\ UNCHANGED <<dir, queue, file, text>>

EndOfFile ==
    /\ outcome = "scanning" /\ file # 0 /\ at > Len(text)
    /\ IF start # 0
       THEN Lint(start, Len(text), line_at_start) ELSE UNCHANGED <<out, outcome>>
    /\ file' = 0
    /\ UNCHANGED <<dir, queue, loopVars>>

Return ==
    /\ outcome = "scanning" /\ file = 0 /\ queue = <<>>
    /\ outcome' = "ok"
    /\ UNCHANGED <<dir, queue, file, loopVars, out>>

Returned == outcome # "scanning" /\ UNCHANGED vars

Next == ReadFile \/ split_statements \/ EndOfFile \/ Return \/ Returned

Spec == Init /\ [][Next]_vars

-----------------------------------------------------------------------------
(* The lint by its definition, for comparison.                              *)

Live(body) ==
    {k \in DOMAIN body :
        ~\E j \in 1 .. k : body[j] = "--" /\ \A m \in j .. k : body[m] # "newline"}

\* The positions of the words of the statement that ends before position e.
StatementBefore(body, e) ==
    {k \in Live(body) : k < e /\ body[k] \notin Whitespace
        /\ \A m \in k .. e - 1 : m \in Live(body) => body[m] # ";"}

Ends(body) == {k \in Live(body) : body[k] = ";"} \cup {Len(body) + 1}

LineOf(body, k) == 1 + Cardinality({m \in 1 .. k - 1 : body[m] = "newline"})

\* The words at positions S of body make a statement that calls for a lint,
\* and the lint for it.
Missing(body, S) ==
    LET words == {body[k] : k \in S}
    IN  "CREATE POLICY" \in words /\ words \cap {"WITH CHECK", "FOR SELECT"} = {}

LintOf(p, S) ==
    LET k == CHOOSE k \in S : \A m \in S : k <= m
    IN  [file |-> p, line |-> LineOf(dir[p].body, k), stmt |-> k]

\* The lints for the statements of a file that end at the positions E.
LintsAt(p, E) ==
    LET body == dir[p].body
    IN  {LintOf(p, S) : S \in {S \in {StatementBefore(body, e) : e \in E} : Missing(body, S)}}

Lints(p) == LintsAt(p, Ends(dir[p].body))

TypeOK ==
    /\ queue \in Seq(SqlFiles) /\ file \in SqlFiles \cup {0}
    /\ text \in Seq(1 .. MaxTokens)
    /\ at \in 1 .. Len(text) + 1 /\ start \in 0 .. Len(text)
    /\ {line_at_start, current_line} \subseteq 1 .. MaxTokens + 1
    /\ out \in Seq([file : SqlFiles, line : 1 .. MaxTokens + 1, stmt : 1 .. MaxTokens])
    /\ outcome \in {"scanning", "ok", "error", "panic"}

(* audit.rs:476-481: when the scan returns, every CREATE POLICY statement   *)
(* of the .sql files that targets a write and has no WITH CHECK is there,   *)
(* once, at the line where it begins, and nothing else is.                  *)
LintsAreExact ==
    outcome = "ok" =>
        /\ ToSet(out) = UNION {Lints(p) : p \in SqlFiles}
        /\ Len(out) = Cardinality(ToSet(out))

(* audit.rs:504-523: the scan returns lints only when it has read every     *)
(* .sql file, and lists them in the order of the paths and, in a file, of   *)
(* the statements.                                                          *)
OkMeansAllRead ==
    outcome = "ok" =>
        /\ \A p \in SqlFiles : dir[p].body # Unreadable
        /\ \A i, j \in DOMAIN out : i < j =>
              \/ out[i].file < out[j].file
              \/ out[i].file = out[j].file /\ out[i].stmt < out[j].stmt

-----------------------------------------------------------------------------
(* A reading of the documentation that the code does not bear out.          *)

(* audit.rs:435: the snippet is the "offending statement, trimmed for       *)
(* display".  Trimming it does not bring the scan down.                     *)
SnippetIsTrimmed == outcome # "panic"
==============================================================================
