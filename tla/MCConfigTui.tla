---------------------------- MODULE MCConfigTui ----------------------------
(* A session that starts with one bag, a local and a remote source, and one  *)
(* mapping with a var of every form.                                         *)
EXTENDS ConfigTui

IdSeq == <<"i1", "i2", "i3", "i4", "i5", "i6", "i7", "i8", "i9", "i10", "i11", "i12",
           "i13", "i14", "i15", "i16", "i17", "i18", "i19", "i20">>

Source(type, arns) == [type |-> type, arns |-> arns, param |-> "p"]

StartedConfig ==
    [sources |-> [s \in {"local", "aws"} |->
                    IF s = "local" THEN Source("local", {}) ELSE Source("aws", {"r"})],
     secrets |-> [b \in {"a"} |-> [born |-> 1, kv |-> [k \in {"k"} |-> "1"]]],
     mappings |-> <<[kind |-> "cwd", cmds |-> {"c"}, vars |->
        {Ref("", "local", "a", ""), Ref("n", "local", "a", "k"), Ref("x", "aws", "r", "x"),
         Literal("z", "1")}]>>,
     agent |-> "p"]
=============================================================================
