-------------------------------- MODULE Headers --------------------------------
(***************************************************************************)
(* headers.go: the headers of a request on its way through the proxy.      *)
(*                                                                         *)
(* Headers are a function from canonical names to the sequence of their    *)
(* values, <<>> for a header that is absent.  A value is the sequence of   *)
(* its comma-separated fields, of which only those of Anthropic-Beta are   *)
(* ever looked at.  Options are [strip, add]: a set of names and a         *)
(* sequence of [name, value].                                              *)
(***************************************************************************)
EXTENDS Integers, SequencesExt, Sums

CONSTANT Plain   \* the names of the headers no rule is about

HopByHop ==
  {"Connection", "Keep-Alive", "Proxy-Authenticate", "Proxy-Authorization", "Te", "Trailer",
   "Trailers", "Transfer-Encoding", "Upgrade"}

ProxyManaged == {"Host", "Content-Length"}

Beta        == "Anthropic-Beta"
HeaderNames == HopByHop \cup ProxyManaged \cup {Beta} \cup Plain

FilesApi   == "files-api"   \* any field whose text contains it
EmptyField == ""

Empty == [n \in HeaderNames |-> <<>>]

\* A sequence without its elements that are in S.
Without(seq, S) ==
  FlattenSeq([i \in DOMAIN seq |-> IF seq[i] \in S THEN <<>> ELSE <<seq[i]>>])

-------------------------------------------------------------------------------
(* LoadHeaderOptsFromEnv *)

\* PROXY_STRIP_HEADERS is the sequence of names it lists, PROXY_ADD_HEADERS that of
\* its entries [colon, name, value].  Entries without a colon or a name are skipped.
LoadHeaderOpts(strips, adds) ==
  [strip |-> ToSet(strips) \ {""},
   add   |-> LET good == Without(adds, {e \in ToSet(adds) : ~ e.colon \/ e.name = ""})
             IN  [i \in DOMAIN good |-> [name |-> good[i].name, value |-> good[i].value]]]

-------------------------------------------------------------------------------
(* BuildUpstreamHeaders *)

FilterAnthropicBeta(fields) == Without(fields, {EmptyField, FilesApi})

\* All values of a header joined into one.
Joined(values) == FlattenSeq(values)

\* A rule that drops the header whatever its values are.
Stripped(n, opts) == n \in HopByHop \cup ProxyManaged \cup opts.strip

PassedOn(in, n, opts) ==
  LET kept == FilterAnthropicBeta(Joined(in[n]))
  IN  CASE Stripped(n, opts)                              -> <<>>
        [] ~ Stripped(n, opts) /\ n = Beta /\ kept = <<>> -> <<>>
        [] ~ Stripped(n, opts) /\ n = Beta /\ kept # <<>> -> <<kept>>
        [] OTHER                                          -> in[n]

\* Host is always set, Content-Length if there is a body.
Managed(n, hasBody) ==
  CASE n = "Host"                       -> << <<"upstream">> >>
    [] n = "Content-Length" /\ hasBody  -> << <<"length">> >>
    [] OTHER                            -> <<>>

Added(n, opts) ==
  LET entries == Without(opts.add, {p \in ToSet(opts.add) : p.name # n})
  IN  [i \in DOMAIN entries |-> entries[i].value]

BuildUpstreamHeaders(in, hasBody, opts) ==
  [n \in HeaderNames |-> PassedOn(in, n, opts) \o Managed(n, hasBody) \o Added(n, opts)]

-------------------------------------------------------------------------------
(* HeaderStats *)

BetaTokensStripped(in) ==
  Cardinality({i \in DOMAIN Joined(in[Beta]) : Joined(in[Beta])[i] = FilesApi})

\* Mutant of StripCount: fields dropped from Anthropic-Beta do not count.
StripCountValues(in, opts) ==
  Total([n \in HeaderNames |-> IF Stripped(n, opts) THEN Len(in[n]) ELSE 0])

StripCount(in, opts) ==
  Total([n \in HeaderNames |-> CASE Stripped(n, opts)                -> Len(in[n])
                                 [] ~ Stripped(n, opts) /\ n = Beta -> BetaTokensStripped(in)
                                 [] OTHER                           -> 0])

InjectCount(hasBody, opts) == 1 + (IF hasBody THEN 1 ELSE 0) + Len(opts.add)
===============================================================================
