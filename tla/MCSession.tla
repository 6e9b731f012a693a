------------------------------- MODULE MCSession -------------------------------
(***************************************************************************)
(* Instance of Session: four families of worlds, for the command line, the *)
(* configurations, the doctor and the headers.                             *)
(***************************************************************************)
EXTENDS Session

MCClaudeIds   == Spoofs \cup {"claude-3"}
MCInternalIds == {"claude-3"}
MCFileIds     == {"f1"}
MCHugeBudget  == -1

MCUnset == [kind |-> "unset", level |-> "bad", clauses |-> <<>>]
MCOff   == [MCUnset EXCEPT !.kind = "off"]
MCAuto  == [MCUnset EXCEPT !.kind = "auto"]
MCMax   == [MCUnset EXCEPT !.kind = "const", !.level = "max"]

MCThinkings == {NoThinking, [type |-> "enabled", budget |-> [kind |-> "number", n |-> 4000]]}

\* Headers of claude: a beta the proxy serves among others, alone, and spread over
\* two values with an empty field; headers no rule is about, and one that is.
MCClientHeaders ==
  {[Empty EXCEPT ![Beta] = << <<"files-api", "other">> >>, !["X-Team"] = << <<"a">> >>],
   [Empty EXCEPT ![Beta] = << <<"files-api">> >>, !["Host"] = << <<"loopback">> >>],
   [Empty EXCEPT ![Beta] = << <<"other", "">>, <<"files-api", "files-api">> >>,
                 !["X-Team"] = << <<"a">>, <<"b">> >>, !["Te"] = << <<"c">>, <<"d">> >>],
   Empty}

-------------------------------------------------------------------------------

World(script, saved, effort) ==
  [script |-> script, saved |-> saved, effort |-> effort, file |-> "ok", claude |-> TRUE,
   secret |-> "ok", key |-> "ok", collector |-> TRUE, noBetas |-> FALSE,
   strips |-> <<>>, adds |-> <<>>]

Launch == << <<>> >>
DoctorThenLaunch == << <<"--doctor">>, <<>> >>

Saved(unlock, otlp, effort, models, efforts) ==
  [model |-> "pro", vision |-> NoModel, ref |-> TRUE, unlock |-> unlock, otlp |-> otlp,
   effort |-> effort, tierModel |-> models, tierEffort |-> efforts]

NoTierModels  == [t \in Tiers |-> NoModel]
NoTierEfforts == [t \in Tiers |-> MCUnset]

Words == OwnWords \cup {"-p"}

\* All command lines of up to two words, and those of three with -- among the first
\* two.
Argvs == BoundedSeq(Words, 2) \cup {<<a, "--", b>> : a, b \in Words}
                              \cup {<<"--", a, b>> : a, b \in Words}

ArgvFamily ==
  {World(<<args>>, Saved(TRUE, otlp, MCOff, [NoTierModels EXCEPT !["opus"] = "flash"],
                         [NoTierEfforts EXCEPT !["opus"] = MCMax]), env) :
     args \in Argvs, otlp \in BOOLEAN, env \in {MCUnset, MCAuto}}

Models == [Tiers -> {NoModel, "flash"}]

ConfigFamily ==
  {World(DoctorThenLaunch,
         Saved(unlock, otlp, effort, models,
               [small_fast |-> sf, haiku |-> h, sonnet |-> MCUnset, opus |-> o]), env) :
     unlock, otlp \in BOOLEAN, effort \in {MCOff, MCAuto}, models \in Models,
     sf, h \in {MCUnset, MCMax}, o \in {MCUnset, MCOff, MCAuto}, env \in {MCUnset, MCOff}}

DoctorFamily ==
  {[World(DoctorThenLaunch,
          [Saved(unlock, otlp, MCAuto, NoTierModels, NoTierEfforts) EXCEPT !.ref = ref], MCUnset)
      EXCEPT !.file = file, !.secret = secret, !.key = key, !.claude = claude, !.collector = up] :
     unlock, otlp, ref, claude, up \in BOOLEAN, file \in Files, secret \in Secrets,
     key \in KeyAnswers}

\* PROXY_STRIP_HEADERS and PROXY_ADD_HEADERS, and an inherited
\* CLAUDE_CODE_DISABLE_EXPERIMENTAL_BETAS.
Entry(colon, name) == [colon |-> colon, name |-> name, value |-> <<"v">>]

HeaderFamily ==
  {[World(Launch, Saved(TRUE, FALSE, effort, NoTierModels, NoTierEfforts), MCUnset)
      EXCEPT !.noBetas = no, !.strips = strips, !.adds = adds] :
     effort \in {MCOff, MCAuto}, no \in BOOLEAN,
     strips \in {<<>>, <<"X-Team", "">>, <<Beta>>, <<"Te">>},
     adds \in {<<>>, <<Entry(TRUE, "X-Team"), Entry(FALSE, "X-Key"), Entry(TRUE, "")>>,
               <<Entry(TRUE, "X-Key"), Entry(TRUE, "X-Key"), Entry(TRUE, "Te")>>,
               <<Entry(TRUE, Beta)>>}}

MCWorlds == ArgvFamily \cup ConfigFamily \cup DoctorFamily \cup HeaderFamily
===============================================================================
