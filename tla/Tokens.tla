-------------------------------- MODULE Tokens --------------------------------
(***************************************************************************)
(* The operations that turn the sources of a dataset into tokens and the   *)
(* tokens into the instances of a classifier: the renaming of functions    *)
(* and variables and the splitting into tokens                             *)
(* (bugfinder/processing/tokenizers), the models and embeddings of         *)
(* word2vec and node2vec (bugfinder/features/extraction), and the loading  *)
(* of the embeddings (bugfinder/models/blstm_classifier.py).               *)
(*                                                                         *)
(* A line is a sequence of words; a word is a name and what follows it:    *)
(*   "call"      an opening parenthesis                                    *)
(*   "word"      another word                                              *)
(*   "wordcall"  another word with an opening parenthesis                  *)
(*   "star"      stars and another word                                    *)
(*   "end"       anything else                                             *)
(* String literals and operators are left out.                             *)
(***************************************************************************)
EXTENDS Naturals, SequencesExt, FiniteSetsExt

CONSTANTS
  Files,     \* the .c and .h files of the test cases
  Stem,      \* the path of each without its suffix
  Sources,   \* the lines of each at the beginning
  Graphs,    \* directories with the edges that Joern has written
  NodesOf,   \* the nodes of the flows in each, in the order of the edges
  Good,      \* paths with "good" in them
  Lengths,   \* embedding lengths that are asked for
  Width,     \* length of a vector
  MaxOps     \* bound: operations that are started

Renamers == {"functions", "variables"}
Kinds    == {"word2vec", "node2vec"}
Paths    == {Stem[f] : f \in Files} \union Graphs
None     == [length |-> 0]

Word(name, ctx) == [name |-> name, ctx |-> ctx]

Contexts == {"call", "word", "wordcall", "star", "end"}

(* The original names are <<"id", k>>, literals in hexadecimal <<"hex", k>>; *)
(* main, argc (and argv) and the keywords stand for themselves.  No source   *)
(* has a name like FUN1 or VAR1 of its own: a line that has it would run it  *)
(* together with the name that is given that number.                         *)
Original == [name : {"id", "hex", "main", "argc", "keyword"} \X Nat, ctx : Contexts]

ASSUME TokensAssumption ==
  /\ DOMAIN Stem = Files /\ DOMAIN NodesOf = Graphs
  /\ Sources \in [Files -> Seq(Seq(Original))]
  /\ Lengths \subseteq Nat \ {0} /\ Width \in Nat \ {0} /\ MaxOps \in Nat

VARIABLES
  text,      \* the lines of each file
  model,     \* the model that was trained last
  csv,       \* the embeddings that were saved for each path
  op,        \* the operation that is run
  last,      \* how the last operation ended
  origin,    \* ghost: what the words of each file were at the beginning
  renamed,   \* ghost: the renamings that each file has gone through
  cut,       \* ghost: files that have lost a line after a renaming
  ops        \* number of operations started

vars == <<text, model, csv, op, last, origin, renamed, cut, ops>>

Idle    == [kind |-> "none", of |-> "none", todo |-> {}, batch |-> <<>>]
NoModel == [vocabulary |-> {}, number |-> 0, readable |-> FALSE, text |-> <<>>]

Init == /\ text = Sources
        /\ model = NoModel
        /\ csv = [p \in Paths |-> None]
        /\ op = Idle
        /\ last = Idle
        /\ origin = Sources
        /\ renamed = [f \in Files |-> {}]
        /\ cut = {}
        /\ ops = 0
-------------------------------------------------------------------------------
(* Renaming.  Names are numbered in the order in which they are found in a   *)
(* file; those that stay are not.                                            *)
Kept(kind)     == IF kind = "functions" THEN {"main", "keyword"} ELSE {"argc", "keyword"}
Prefix(kind)   == IF kind = "functions" THEN "FUN" ELSE "VAR"
FoundIn(kind)  == IF kind = "functions" THEN {"call"} ELSE {"end"}
Replaced(kind) == IF kind = "functions" THEN {"call"} ELSE {"end", "star", "wordcall"}

Ascii(line) == [i \in DOMAIN line |->
                  IF line[i].name[1] = "hex" THEN [line[i] EXCEPT !.name = <<"HEX", 0>>]
                  ELSE line[i]]

Cleaned(lines) == [i \in DOMAIN lines |-> Ascii(lines[i])]

(* The places of the words, line by line, and the word that is there.        *)
Places(lines) == UNION {{i} \X DOMAIN lines[i] : i \in DOMAIN lines}
Upto(p, q)    == p[1] < q[1] \/ (p[1] = q[1] /\ p[2] <= q[2])
At(lines, p)  == lines[p[1]][p[2]]

Found(kind, lines) == {p \in Places(lines) : /\ At(lines, p).ctx \in FoundIn(kind)
                                             /\ At(lines, p).name[1] \notin Kept(kind)}
Alike(lines, S, p) == {q \in S : At(lines, q).name = At(lines, p).name}
Firsts(lines, S)   == {p \in S : \A q \in Alike(lines, S, p) : Upto(p, q)}

(* Mutant of Number: a line starts with an empty table.                      *)
NumberInLine(lines, S, p) ==
  Cardinality({q \in Firsts(lines, S) :
                 q[1] = p[1] /\ \A r \in Alike(lines, S, p) : Upto(q, r)})

(* The symbol table is the file's: a name has the number of the names that   *)
(* were found until it was found first.                                      *)
Number(lines, S, p) ==
  Cardinality({q \in Firsts(lines, S) : \A r \in Alike(lines, S, p) : Upto(q, r)})

(* Mutant of FirstNumber: the numbers go on from file to file.               *)
FirstNumberOfRun(f) == 1 + SumSet({Len(text[g]) : g \in (Files \ op.todo) \ {f}})

FirstNumber(f) == 1

(* What becomes of a name in line i: the names that were found in the line   *)
(* are replaced one after the other, each wherever the line has it then.     *)
Replacing(kind, f, lines, found, i, name) ==
  LET now[k \in 0..Len(lines[i])] ==
        IF k = 0 THEN name
        ELSE IF <<i, k>> \in found /\ lines[i][k].name = now[k - 1]
             THEN <<Prefix(kind), FirstNumber(f) - 1 + Number(lines, found, <<i, k>>)>>
             ELSE now[k - 1]
  IN  now[Len(lines[i])]

RenamedLines(kind, f) ==
  LET lines == Cleaned(text[f])
      found == Found(kind, lines)
  IN  [i \in DOMAIN lines |-> [j \in DOMAIN lines[i] |->
         IF lines[i][j].ctx \in Replaced(kind)
         THEN [lines[i][j] EXCEPT !.name = Replacing(kind, f, lines, found, i, @)]
         ELSE lines[i][j]]]

(* One token in each line, with nothing behind it.                           *)
Split(lines)     == [i \in DOMAIN FlattenSeq(lines) |-> <<FlattenSeq(lines)[i]>>]
Tokenized(lines) == [i \in DOMAIN Split(lines) |-> <<Word(Split(lines)[i][1].name, "end")>>]
-------------------------------------------------------------------------------
Start(o) == /\ op.kind = "none" /\ ops < MaxOps
            /\ ops' = ops + 1
            /\ op' = o
            /\ last' = Idle

Ends == op' = Idle /\ last' = [op EXCEPT !.batch = <<>>]

(* The operation raises, or its program is stopped.                          *)
Fails == op' = Idle /\ last' = Idle

StartFiles == /\ \E kind \in Renamers \union {"tokenize"} :
                   Start([Idle EXCEPT !.kind = kind, !.todo = Files])
              /\ UNCHANGED <<text, model, csv, origin, renamed, cut>>

(* process_file: the result is written beside the file and moved over it.    *)
RenameFile ==
  /\ op.kind \in Renamers
  /\ \E f \in op.todo :
       /\ text' = [text EXCEPT ![f] = RenamedLines(op.kind, f)]
       /\ renamed' = [renamed EXCEPT ![f] = @ \union {op.kind}]
       /\ op' = [op EXCEPT !.todo = @ \ {f}]
  /\ UNCHANGED <<model, csv, last, origin, cut, ops>>

TokenizeFile ==
  /\ op.kind = "tokenize"
  /\ \E f \in op.todo :
       /\ text' = [text EXCEPT ![f] = Tokenized(@)]
       /\ origin' = [origin EXCEPT ![f] = Split(@)]
       /\ renamed' = [renamed EXCEPT ![f] = {}]
       /\ op' = [op EXCEPT !.todo = @ \ {f}]
  /\ UNCHANGED <<model, csv, last, cut, ops>>

EndFiles == /\ op.kind \in Renamers \union {"tokenize"} /\ op.todo = {}
            /\ Ends
            /\ UNCHANGED <<text, model, csv, origin, renamed, cut, ops>>

(* A cleaning operation takes a line out of a file.                          *)
CutLine ==
  /\ op.kind = "none" /\ ops < MaxOps
  /\ \E f \in Files :
       /\ Len(text[f]) > 1
       /\ text' = [text EXCEPT ![f] = Tail(@)]
       /\ origin' = [origin EXCEPT ![f] = Tail(@)]
       /\ cut' = IF renamed[f] = {} THEN cut ELSE cut \union {f}
       /\ renamed' = [renamed EXCEPT ![f] = {}]
  /\ ops' = ops + 1
  /\ last' = Idle
  /\ UNCHANGED <<model, csv, op>>
-------------------------------------------------------------------------------
(* What the models are trained on and what is embedded.  A token is a line   *)
(* of a file, or a node; every node begins walks of its own.                 *)
WordDocs == {[path |-> Stem[f], tokens |-> text[f]] : f \in Files}
NodeDocs == {[path |-> g, tokens |-> [i \in DOMAIN NodesOf[g] |->
                 <<Word(<<"node", NodesOf[g][i]>>, "end")>>]] : g \in Graphs}
Docs(kind) == IF kind = "word2vec" THEN WordDocs ELSE NodeDocs

StartTraining ==
  /\ \E kind \in Kinds : Start([Idle EXCEPT !.kind = "train", !.of = kind])
  /\ UNCHANGED <<text, model, csv, origin, renamed, cut>>

(* The model is saved over the one of that name.                             *)
Train ==
  /\ op.kind = "train"
  /\ Docs(op.of) # {}
  /\ \E readable \in BOOLEAN :
       /\ model' = [vocabulary |-> UNION {ToSet(d.tokens) : d \in Docs(op.of)},
                    number |-> model.number + 1, readable |-> readable, text |-> text]
       /\ IF readable THEN Ends ELSE Fails
  /\ UNCHANGED <<text, csv, origin, renamed, cut, ops>>

(* The rows of a document: its tokens, cut off at the embedding length.      *)
CutOff(tokens, length) == SubSeq(tokens, 1, Min({Len(tokens), length}))

Vectorize(d, length) == [path |-> d.path, number |-> model.number, length |-> length,
                         rows |-> CutOff(d.tokens, length), whole |-> TRUE]

(* Mutant of ToSave: what has been saved before is not saved again.          *)
ToSaveOnce(kind, length) ==
  {Vectorize(d, length) : d \in {x \in Docs(kind) :
      csv[x.path] = None /\ ToSet(CutOff(x.tokens, length)) \subseteq model.vocabulary}}

(* A document with a token that the model does not know is passed over.      *)
ToSave(kind, length) ==
  {Vectorize(d, length) : d \in {x \in Docs(kind) :
      ToSet(CutOff(x.tokens, length)) \subseteq model.vocabulary}}

StartEmbedding ==
  /\ model.readable
  /\ \E kind \in Kinds, length \in Lengths :
       Start([Idle EXCEPT !.kind = "embed", !.of = kind, !.todo = ToSave(kind, length)])
  /\ UNCHANGED <<text, model, csv, origin, renamed, cut>>

SaveDataframe ==
  /\ op.kind = "embed"
  /\ \E v \in op.todo : /\ csv' = [csv EXCEPT ![v.path] = v]
                        /\ op' = [op EXCEPT !.todo = @ \ {v}]
  /\ UNCHANGED <<text, model, last, origin, renamed, cut, ops>>

StopSaving ==
  /\ op.kind = "embed"
  /\ \E v \in op.todo : csv' = [csv EXCEPT ![v.path] = [v EXCEPT !.whole = FALSE]]
  /\ Fails
  /\ UNCHANGED <<text, model, origin, renamed, cut, ops>>

EndEmbedding == /\ op.kind = "embed" /\ op.todo = {}
                /\ Ends
                /\ UNCHANGED <<text, model, csv, origin, renamed, cut, ops>>

Stop == /\ op.kind # "none"
        /\ Fails
        /\ UNCHANGED <<text, model, csv, origin, renamed, cut, ops>>
-------------------------------------------------------------------------------
(* The classifier loads all embeddings that it finds.                        *)
Saved == {p \in Paths : csv[p] # None}

Cell(p, r, c) == IF r <= Len(csv[p].rows) THEN <<csv[p].number, csv[p].rows[r], c>> ELSE <<>>

(* dstack puts the value of a cell of all files next to each other; reshape  *)
(* goes through these values in their order.                                 *)
Stacked(order, length) ==
  [i \in DOMAIN order |-> [rc \in (1..length) \X (1..Width) |->
     LET at == ((i - 1) * length + rc[1] - 1) * Width + rc[2] - 1
         of == at \div Len(order)
     IN  Cell(order[(at % Len(order)) + 1], (of \div Width) + 1, (of % Width) + 1)]]

Label(p) == IF p \in Good THEN 0 ELSE 1

StartClassifier ==
  /\ Saved # {}
  /\ \E order \in SetToSeqs(Saved), length \in Lengths :
       /\ \A p \in Saved : csv[p].length = length /\ csv[p].whole
       /\ Start([Idle EXCEPT !.kind = "classify", !.batch =
                   [order |-> order, labels |-> [i \in DOMAIN order |-> Label(order[i])],
                    vectors |-> Stacked(order, length)]])
  /\ UNCHANGED <<text, model, csv, origin, renamed, cut>>

EndClassifier == /\ op.kind = "classify"
                 /\ Ends
                 /\ UNCHANGED <<text, model, csv, origin, renamed, cut, ops>>
-------------------------------------------------------------------------------
Next == \/ StartFiles \/ RenameFile \/ TokenizeFile \/ EndFiles \/ CutLine
        \/ StartTraining \/ Train
        \/ StartEmbedding \/ SaveDataframe \/ StopSaving \/ EndEmbedding
        \/ StartClassifier \/ EndClassifier \/ Stop

Spec == Init /\ [][Next]_vars
-------------------------------------------------------------------------------
(* Two calls of a file are of the same function after any number of          *)
(* renamings exactly if they were before, and so for variables, unless the   *)
(* file has lost a line between two renamings (process_file of               *)
(* replace_functions.py and replace_variables.py).                           *)
NamesStayApart ==
  \A f \in Files \ cut :
    LET now     == Cleaned(text[f])
        before  == Cleaned(origin[f])
        becomes == {[ctx |-> At(before, p).ctx, was |-> At(before, p).name,
                     is |-> At(now, p).name] : p \in Places(now)}
    IN  \A x, y \in {z \in becomes : z.ctx \in {"call", "end"}} :
          x.ctx = y.ctx => (x.was = y.was <=> x.is = y.is)

(* To rename again a file that was renamed changes nothing, so a program     *)
(* that was stopped among the files can be run again (replace_functions.py   *)
(* and replace_variables.py), unless the file was split into tokens, or has  *)
(* lost a line, between the two.                                             *)
RenamingSettles ==
  [][\A f \in Files \ cut :
       op.kind \in Renamers /\ f \in op.todo /\ f \notin op'.todo /\ op.kind \in renamed[f]
         => text'[f] = text[f]]_vars

(* Embeddings that ended well are those of the present files, in the vectors *)
(* of the present model, if the files are as the model was trained on; of a  *)
(* source and a header that share their path, one has them                   *)
(* (word2vec/embeddings.py).                                                 *)
VectorsCurrent ==
  last.kind = "embed" /\ last.of = "word2vec" /\ model.text = text
  /\ (\A d \in WordDocs : ToSet(d.tokens) \subseteq model.vocabulary) =>
    \A f \in Files : \E d \in WordDocs, length \in Lengths :
      d.path = Stem[f] /\ csv[Stem[f]] = Vectorize(d, length)

(* "vectors containing the embeddings from the processed instances" and      *)
(* "the labels for each instance": an instance holds what was saved for the  *)
(* file that its label was taken from (_load_dataset, blstm_classifier.py).  *)
InstancesKept ==
  op.kind = "classify" =>
    \A i \in DOMAIN op.batch.order : \A rc \in DOMAIN op.batch.vectors[i] :
      op.batch.vectors[i][rc] = Cell(op.batch.order[i], rc[1], rc[2])
===============================================================================
