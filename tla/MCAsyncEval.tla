---------------------------- MODULE MCAsyncEval -----------------------------
(***************************************************************************)
(* Graphs for AsyncEval: a few arrays, two streams, each graph made for    *)
(* one of the ways streams, buffers and evaluations meet.                  *)
(***************************************************************************)
EXTENDS AsyncEval

CONSTANTS S1, S2
MCStreams == {S1, S2}

\* A graph without siblings from three sequences.
Plain(kinds, ins, streams) ==
  [kind |-> kinds, in |-> ins, stream |-> streams,
   sib |-> [a \in Arrays |-> {}]]

\* x, y = f(x) on the other stream, z = g(x, y) back on the first: x crosses
\* over and may not be donated to y, which crosses back and may be to z.
Chain == Plain(<<"leaf", "donates", "donates", "donates">>,
               <<<<>>, <<1>>, <<2>>, <<2, 3>>>>, <<S1, S1, S2, S1>>)

\* y = f(x), v = view(y), z = g(v) on the other stream: z may write into the
\* buffer y and v share only when nobody else looks at either.
View == Plain(<<"leaf", "donates", "views", "donates">>,
              <<<<>>, <<1>>, <<2>>, <<3>>>>, <<S1, S1, S1, S2>>)

\* Two readers of one array, on two streams; one of them may be given it.
Readers == Plain(<<"leaf", "allocates", "donates", "allocates">>,
                 <<<<>>, <<1>>, <<2>>, <<2>>>>, <<S1, S2, S1, S2>>)

\* A primitive with two outputs, one of them consumed on the other stream.
Siblings == [Plain(<<"leaf", "donates", "donates", "donates">>,
                   <<<<>>, <<1>>, <<1>>, <<3>>>>, <<S1, S1, S1, S2>>)
             EXCEPT !.sib = <<{}, {3}, {2}, {}>>]

MCGraphs == {Chain, View, Readers, Siblings}

\* Three arrays: y = f(x) or a view of x, on either stream, of a computed x.
Pairs == {Plain(<<"leaf", "donates", k>>, <<<<>>, <<1>>, <<2>>>>, <<S1, S1, t>>) :
            k \in {"donates", "views"}, t \in MCStreams}

NoFault == {}
LastFault == {N}
=============================================================================
