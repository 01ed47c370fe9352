---------------------------- MODULE MCYyDocument ----------------------------
EXTENDS YyWrite

Job(f, l, m, a) == [flg |-> f, lexemes |-> l, max |-> m, alloc |-> a]

Structure == {"{", "}", "[", "]", ",", ":"}
Blanks    == {" ", "\n"}

MCJobs ==
    {Job({}, Structure \cup {"str", "num"}, 10, FALSE),
     Job({}, Structure \cup Blanks \cup {"num", "str", "true", "badlit", "badstr", "badnum", "#"},
         6, TRUE),
     Job({"ALLOW_COMMENTS", "ALLOW_TRAILING_COMMAS"},
         Structure \cup {"\n", "str", "cmt", "/*", "#"}, 6, FALSE),
     Job({"ALLOW_INF_AND_NAN"}, {"[", "]", ",", "{", ":", "}", "str", "nan", "NaN", "Inf", "null"},
         5, FALSE),
     Job({"STOP_WHEN_DONE"}, Structure \cup Blanks \cup {"str", "num", "#"}, 4, FALSE)}

MCStrings == {[len |-> 1, bytes |-> 3], [len |-> 20, bytes |-> 122]}

=============================================================================
