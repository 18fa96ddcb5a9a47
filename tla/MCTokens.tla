------------------------------- MODULE MCTokens -------------------------------
(* A dataset with three files for TLC: a source and a header with the same   *)
(* path, and the source of another test case.                                *)
EXTENDS Tokens, TLC

Id(k)  == <<"id", k>>
Kw     == Word(<<"keyword", 0>>, "word")

(* int main(argc) { a(x); }  b(a(x + 0x1)); T *x = c;  return a(x)           *)
SourceA == << <<Kw, Word(<<"main", 0>>, "call"), Word(<<"argc", 0>>, "end"),
                Word(Id(1), "call"), Word(Id(11), "end")>>,
              <<Word(Id(2), "call"), Word(Id(1), "call"), Word(Id(11), "end"),
                Word(<<"hex", 1>>, "end")>>,
              <<Word(Id(12), "star"), Word(Id(13), "end"), Word(Id(12), "end"),
                Word(Id(14), "wordcall"), Word(Id(3), "call")>> >>
HeaderA == << <<Word(Id(14), "star"), Word(Id(13), "end")>> >>
SourceB == << <<Word(Id(4), "call"), Word(Id(14), "end")>>,
              <<Word(Id(4), "end"), Word(Id(14), "end"), Word(Id(4), "call")>> >>

FileNames  == {"bad/a.c", "bad/a.h", "good/b.c"}
Stems      == "bad/a.c" :> "bad/a" @@ "bad/a.h" :> "bad/a" @@ "good/b.c" :> "good/b"
AllSources == "bad/a.c" :> SourceA @@ "bad/a.h" :> HeaderA @@ "good/b.c" :> SourceB
GraphNodes == "graph" :> <<1, 2>>
===============================================================================
