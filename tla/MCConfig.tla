-------------------------------- MODULE MCConfig --------------------------------
(***************************************************************************)
(* Instances of ConfigStore: hand-edited files of up to three lines.       *)
(***************************************************************************)
EXTENDS ConfigStore

SomeLines ==
  {Line("_schema", v) : v \in {"0", "1", "2", "bad"}}
  \cup {Line("api_key_ref", "ref0"), Line("model", "flash"), Line("model", "other"),
        Line("model", NoValue), Line("unlock_auto_mode", "yes"), Line("future_key", "x"),
        Garbage}

AllValues == Numbers \cup Efforts \cup {line.value : line \in SomeLines}
             \cup {Default[k] : k \in Keys} \cup {"ref1", "secret"}

AllFiles   == SeqOf(SomeLines, 3) \cup {Absent}
CleanFiles == {<<Line("_schema", "1"), Line("api_key_ref", "ref0")>>}
===============================================================================
