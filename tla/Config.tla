------------------------------- MODULE Config -------------------------------
(***************************************************************************)
(* The configuration file: pcx-key-value.c turns its bytes into headers    *)
(* and options, pcx-config.c those into bots and servers, which it         *)
(* validates. A word of the file counts as one byte.                       *)
(***************************************************************************)
EXTENDS Integers, Sequences, FiniteSets, SequencesExt

CONSTANTS
    Files,          \* what the file may contain
    Languages       \* of pcx_text_lookup_language

VARIABLES
    config_file,    \* its bytes
    config          \* what pcx_config_load returned

NL == "\n"
NotLoaded == [loaded |-> FALSE]
Refused == [loaded |-> TRUE, ok |-> FALSE]

-----------------------------------------------------------------------------
(* pcx-config.c: the sections that were begun, the first one being the      *)
(* options that belong to no bot and no server.                             *)

Options == [general |-> {"data_dir", "log_file", "user", "group", "telegram_url"},
            bot |-> {"apikey", "botname", "announce_channel", "language"},
            server |-> {"address", "certificate", "private_key", "private_key_password"}]

Section(kind) == [kind |-> kind, has |-> {}]
NewConfig == [sections |-> <<Section("general")>>, at |-> 1, error |-> FALSE]
Failed(c) == [c EXCEPT !.error = TRUE]

(* load_config_func: a general header goes back to the general options.     *)
Header(c, name) ==
    CASE name \in {<<"bot">>, <<"server">>} ->
            [c EXCEPT !.sections = Append(@, Section(name[1])), !.at = Len(c.sections) + 1]
      [] name = <<"general">> -> [c EXCEPT !.at = 1]
      [] OTHER -> Failed(c)

(* set_from_options: a string may be set once, a language any time.         *)
Property(c, key, value) ==
    LET section == c.sections[c.at]
        known == Len(key) = 1 /\ key[1] \in Options[section.kind]
    IN IF ~known THEN Failed(c)
       ELSE IF key[1] = "language"
       THEN IF Len(value) = 1 /\ value[1] \in Languages THEN c ELSE Failed(c)
       ELSE IF \E o \in section.has : o[1] = key[1] THEN Failed(c)
       ELSE [c EXCEPT !.sections[c.at].has = @ \cup {<<key[1], value>>}]

Has(section, key) == \E o \in section.has : o[1] = key

(* validate_config.                                                         *)
Valid(section) ==
    CASE section.kind = "bot" -> Has(section, "apikey") /\ Has(section, "botname")
      [] section.kind = "server" ->
            /\ Has(section, "certificate") <=> Has(section, "private_key")
            /\ Has(section, "private_key_password") => Has(section, "private_key")
      [] OTHER -> TRUE

-----------------------------------------------------------------------------
(* pcx-key-value.c.                                                         *)

Reader == [state |-> "header start", key |-> << >>, value |-> << >>, config |-> NewConfig]

Goto(d, state) == [d EXCEPT !.state = state]
LogError(d, state) == [d EXCEPT !.state = state, !.config = Failed(@)]
ProcessHeader(d) == [d EXCEPT !.state = "end header line", !.config = Header(@, d.value)]

(* process_value, without the spaces at the end of the value.               *)
RECURSIVE Stripped(_)
Stripped(s) == IF s # << >> /\ Last(s) = " " THEN Stripped(Front(s)) ELSE s
ProcessValue(d, value) ==
    [d EXCEPT !.state = "field start", !.config = Property(@, d.key, Stripped(value))]

StartHeader(d) == [d EXCEPT !.state = "reading header", !.value = << >>]

HandleByte(d, ch) ==
    CASE d.state = "header start" ->
            IF ch = "[" THEN StartHeader(d)
            ELSE IF ch \in {" ", NL} THEN d
            ELSE LogError(d, "bad header start")
      [] d.state = "bad header start" -> IF ch = NL THEN Goto(d, "header start") ELSE d
      [] d.state = "reading header" ->
            IF ch = NL THEN LogError(d, "field start")
            ELSE IF ch = "]" THEN ProcessHeader(d)
            ELSE [d EXCEPT !.value = Append(@, ch)]
      [] d.state = "end header line" ->
            IF ch = NL THEN Goto(d, "field start")
            ELSE IF ch = " " THEN d
            ELSE LogError(d, "end header line 2")
      [] d.state = "field start" ->
            IF ch = "[" THEN StartHeader(d)
            ELSE IF ch \in {" ", NL} THEN d
            ELSE [d EXCEPT !.state = "reading field name", !.key = <<ch>>]
      [] d.state = "reading field name" ->
            IF ch = " " THEN Goto(d, "waiting equals")
            ELSE IF ch = "=" THEN Goto(d, "waiting value start")
            ELSE IF ch = NL THEN LogError(d, "field start")
            ELSE [d EXCEPT !.key = Append(@, ch)]
      [] d.state = "waiting equals" ->
            IF ch = "=" THEN Goto(d, "waiting value start")
            ELSE IF ch = NL THEN LogError(d, "field start")
            ELSE IF ch = " " THEN d
            ELSE LogError(d, "bad field")
      [] d.state = "waiting value start" ->
            IF ch = NL THEN ProcessValue(d, << >>)
            ELSE IF ch = " " THEN d
            ELSE [d EXCEPT !.state = "reading value", !.value = <<ch>>]
      [] d.state = "reading value" ->
            IF ch = NL THEN ProcessValue(d, d.value)
            ELSE [d EXCEPT !.value = Append(@, ch)]
      [] OTHER ->       \* bad field, and the rest of a header line
            IF ch = NL THEN Goto(d, "field start") ELSE d

(* pcx_key_value_load: the end of the file ends a line.                     *)
KeyValueLoad(file) == HandleByte(FoldLeft(HandleByte, Reader, file), NL).config

-----------------------------------------------------------------------------

ConfigInit == config_file \in Files /\ config = NotLoaded

pcx_config_load ==
    /\ config = NotLoaded
    /\ \E c \in {KeyValueLoad(config_file)} :
          config' = IF \/ c.error \/ Len(c.sections) = 1
                       \/ \E i \in 1 .. Len(c.sections) : ~Valid(c.sections[i])
                    THEN Refused
                    ELSE [loaded |-> TRUE, ok |-> TRUE, sections |-> c.sections]
    /\ UNCHANGED config_file

ConfigSpec == ConfigInit /\ [][pcx_config_load]_<<config_file, config>>

-----------------------------------------------------------------------------
(* Properties: what a file says, line by line.                              *)

Breaks == {0, Len(config_file) + 1} \cup {i \in 1 .. Len(config_file) : config_file[i] = NL}
LineAfter(i) == SubSeq(config_file, i + 1,
                       (CHOOSE j \in Breaks : j > i /\ \A k \in Breaks : k > i => j =< k) - 1)
Blank(s) == \A i \in 1 .. Len(s) : s[i] = " "
RECURSIVE Indented(_)
Indented(s) == IF s # << >> /\ Head(s) = " " THEN Indented(Tail(s)) ELSE s
Trim(s) == Stripped(Indented(s))

Cut(s, i) == [left |-> SubSeq(s, 1, i - 1), right |-> SubSeq(s, i + 1, Len(s))]
FirstIn(s, ch, from) ==
    {i \in from .. Len(s) : s[i] = ch /\ \A j \in from .. i - 1 : s[j] # ch}

(* A line is a header, an option, blank, or wrong. A key may begin with =.  *)
Meaning(i) ==
    LET line == Trim(LineAfter(i))
        header == {Cut(Tail(line), j) : j \in FirstIn(Tail(line), "]", 1)}
        option == {Cut(line, j) : j \in FirstIn(line, "=", 2)}
    IN IF line = << >> THEN [is |-> "blank"]
       ELSE IF line[1] = "["
       THEN IF \E h \in header : Blank(h.right)
            THEN [is |-> "header", name |-> (CHOOSE h \in header : TRUE).left]
            ELSE [is |-> "wrong"]
       ELSE IF \E o \in option : " " \notin ToSet(Trim(o.left))
       THEN LET o == CHOOSE o \in option : TRUE
            IN [is |-> "option", key |-> Trim(o.left), value |-> Trim(o.right)]
       ELSE [is |-> "wrong"]

Meanings == [i \in Breaks \ {Len(config_file) + 1} |-> Meaning(i)]
HeaderOf(m, i) == {h \in DOMAIN m : /\ h < i /\ m[h].is = "header"
                                    /\ \A j \in DOMAIN m : m[j].is = "header" /\ j < i => j =< h}
(* The lines of a section: those after its header, or after any of the      *)
(* general headers.                                                         *)
OptionsOf(m, h) ==
    {i \in DOMAIN m : /\ m[i].is = "option"
                      /\ \E g \in HeaderOf(m, i) :
                            g = h \/ (m[g].name = m[h].name /\ m[h].name = <<"general">>)}
Key(m, h, key) == {i \in OptionsOf(m, h) : m[i].key = <<key>>}

(* What makes a file right.                                                 *)
RightSection(m, h) ==
    LET kind == m[h].name IN
    /\ Len(kind) = 1 /\ kind[1] \in DOMAIN Options
    /\ \A i \in OptionsOf(m, h) :
          /\ Len(m[i].key) = 1 /\ m[i].key[1] \in Options[kind[1]]
          /\ m[i].key = <<"language">> => Len(m[i].value) = 1 /\ m[i].value[1] \in Languages
          /\ m[i].key # <<"language">> => Cardinality(Key(m, h, m[i].key[1])) = 1
    /\ kind = <<"bot">> => Key(m, h, "apikey") # {} /\ Key(m, h, "botname") # {}
    /\ kind = <<"server">> =>
          /\ Key(m, h, "certificate") # {} <=> Key(m, h, "private_key") # {}
          /\ Key(m, h, "private_key_password") # {} => Key(m, h, "private_key") # {}
RightFile(m) ==
    LET headers == {i \in DOMAIN m : m[i].is = "header"} IN
    /\ \A i \in DOMAIN m : m[i].is # "wrong"
    /\ \A i \in DOMAIN m : m[i].is = "option" => HeaderOf(m, i) # {}
    /\ \A h \in headers : RightSection(m, h)
    /\ \E h \in headers : m[h].name # <<"general">>

(* A file is accepted when each of its lines means something and its        *)
(* sections are complete; and then every bot and server has its options.    *)
ConfigIsTheFile ==
    config.loaded =>
        LET m == Meanings
            own == {h \in DOMAIN m : m[h].is = "header" /\ m[h].name # <<"general">>}
            Rank(h) == Cardinality({g \in own : g =< h})
            Written(h) == {<<m[i].key[1], m[i].value>> :
                             i \in {i \in OptionsOf(m, h) : m[i].key # <<"language">>}}
        IN /\ config.ok <=> RightFile(m)
           /\ config.ok =>
                 /\ Len(config.sections) = 1 + Cardinality(own)
                 /\ \A h \in own :
                       config.sections[1 + Rank(h)] = [kind |-> m[h].name[1], has |-> Written(h)]
                 /\ config.sections[1].has =
                       UNION {Written(h) : h \in {h \in DOMAIN m : m[h].is = "header"} \ own}
=============================================================================
