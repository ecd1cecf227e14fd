------------------------------ MODULE CmdLine ------------------------------
(***************************************************************************)
(* The console of examples/cmdLine: it asks for a command's attributes one *)
(* by one, lays them out in a buffer by rules of its own, and hands the    *)
(* buffer to a request function, which reads it as a struct.  The requests *)
(* that other programs make of MtRequest go on in between; the receive     *)
(* thread's step too, which has nothing to do with what is typed.          *)
(***************************************************************************)
EXTENDS MtRequest, CmdTable

VARIABLES cmd,          \* the command being entered, 0: none
          x,            \* the attribute asked for
          currentPos,
          commandSize,  \* a uint8_t: the size of input
          typed,        \* where each attribute was put, and its value
          top           \* bytes of input written to, counted from its beginning

lineVars == <<cmd, x, currentPos, commandSize, typed, top>>

atts == commands[cmd].atts

LineInit == /\ Init
            /\ cmd = 0 /\ x = 1 /\ currentPos = 0 /\ commandSize = 0
            /\ typed = <<>> /\ top = 0

\* The bytes of an attribute in the buffer.
Room(att) == att.size * (IF att.isList = 0 THEN 1 ELSE att.isList)

\* Fault: 16-bit attributes are not aligned in the size.
SizeUnpadded(attributes) ==
    LET size[i \in 0..Len(attributes)] ==
            IF i = 0 THEN 0 ELSE (size[i - 1] + Room(attributes[i])) % 256
    IN size[Len(attributes)]

\* A 16-bit attribute is to end at an even place.
Evened(size, att) == IF att.size = 2 THEN (size + (size % 2)) % 256 ELSE size

\* The size, computed in a uint8_t.
SizeOfInput(attributes) ==
    LET size[i \in 0..Len(attributes)] ==
            IF i = 0 THEN 0
            ELSE Evened((size[i - 1] + Room(attributes[i])) % 256, attributes[i])
    IN size[Len(attributes)]

\* Fault: the attribute is put right behind the one before.
PaddedNever(att, entries) == 0

\* The byte that is skipped before a 16-bit attribute, or before the first of the
\* entries of a list of them; before an empty list none is.
Padding(att, entries) == IF att.size = 2 /\ entries > 0 THEN currentPos % 2 ELSE 0

Choose(i) ==
    /\ pc = "idle" /\ cmd = 0
    /\ cmd' = i
    /\ x' = 1 /\ currentPos' = 0 /\ typed' = <<>> /\ top' = 0
    /\ commandSize' = SizeOfInput(commands[i].atts)
    /\ UNCHANGED vars

\* bound: values matter only in lengths of lists.
Values ==
    IF x < Len(atts) /\ atts[x + 1].isList > 0
    THEN UpTo(ListLengths, atts[x + 1].isList)
    ELSE {0}

TypeAttribute ==
    /\ cmd # 0 /\ x <= Len(atts)
    /\ atts[x].isList = 0
    /\ LET pos == currentPos + Padding(atts[x], 1)
       IN /\ \E value \in Values : typed' = Append(typed, [at |-> pos, value |-> value])
          /\ currentPos' = pos + atts[x].size
          /\ top' = Max({top, pos + atts[x].size})
    /\ x' = x + 1
    /\ UNCHANGED <<cmd, commandSize, vars>>

\* A list of as many entries as fit, or more, is refused and its length asked for again.
AskLengthAgain ==
    /\ cmd # 0 /\ x <= Len(atts)
    /\ atts[x].isList > 0
    /\ typed[x - 1].value >= atts[x].isList
    /\ x' = x - 1 /\ typed' = Front(typed)
    /\ currentPos' = currentPos - atts[x - 1].size
    /\ UNCHANGED <<cmd, commandSize, top, vars>>

TypeList ==
    /\ cmd # 0 /\ x <= Len(atts)
    /\ atts[x].isList > 0
    /\ LET listLen == typed[x - 1].value
           pos == currentPos + Padding(atts[x], listLen)
       IN /\ listLen < atts[x].isList
          /\ typed' = Append(typed, [at |-> pos, value |-> 0])
          /\ currentPos' = pos + Room(atts[x])
          /\ top' = IF listLen > 0 THEN Max({top, pos + listLen * atts[x].size}) ELSE top
    /\ x' = x + 1
    /\ UNCHANGED <<cmd, commandSize, vars>>

\* What the request function finds in the struct's lengths of lists: what was typed,
\* if it was put there, else any byte.
ReadAs(struct, args) ==
    LET lengths == SelectSeq([i \in DOMAIN struct |-> i],
                             LAMBDA i : struct[i].kind = "count")
    IN \A k \in DOMAIN lengths : \A j \in DOMAIN typed :
           typed[j].at = Offsets(struct)[lengths[k]] /\ atts[j].isList = 0
               => typed[j].value = args[k]

SendCmd ==
    /\ cmd # 0 /\ x > Len(atts)
    /\ \E c \in Calls \union MisreadCalls :
           /\ c.fn = Functions[cmd].name
           /\ ReadAs(Functions[cmd].struct, c.args)
           /\ Enter(c)
    /\ cmd' = 0 /\ x' = 1 /\ currentPos' = 0 /\ commandSize' = 0
    /\ typed' = <<>> /\ top' = 0

LineNext ==
    \/ \E i \in DOMAIN commands : Choose(i)
    \/ TypeAttribute
    \/ AskLengthAgain
    \/ TypeList
    \/ SendCmd
    \/ cmd = 0 /\ Next /\ UNCHANGED lineVars

LineSpec == LineInit /\ [][LineNext]_<<vars, lineVars>>

----------------------------------------------------------------------------
\* The attributes of the command are those of the struct, and the buffer is where the
\* console counts on it to be, while it asks.
LineTypeOK ==
    /\ TypeOK
    /\ cmd \in 0..Len(commands) /\ commandSize \in 0..255
    /\ cmd # 0 => /\ Len(atts) = Len(Functions[cmd].struct)
                 /\ x = Len(typed) + 1 /\ x \in 1..(Len(atts) + 1)

\* The lists of 16-bit entries that were left empty where the console skips a byte for
\* alignment only once there is an entry.
Unaligned(k) == atts[k].isList > 0 /\ atts[k].size = 2 /\ typed[k].at % 2 = 1

\* When the buffer is handed over, every attribute lies where the compiler has put the
\* member of the struct that the request function reads it from: the table of InitCmds,
\* the structs of four headers, the cast in sendCmd and the alignment in inputCmd agree,
\* for each of the 72 commands and whatever lengths were refused on the way.  Only an
\* empty list of 16-bit entries in an odd place moves all that follows it.
FieldsInPlace ==
    cmd # 0 /\ x > Len(atts) =>
        \A k \in DOMAIN typed :
            typed[k].at = Offsets(Functions[cmd].struct)[k] <=> ~\E j \in 1..k : Unaligned(j)

\* The bytes that a command's attributes take when all lists are full.
Whole(attributes) ==
    LET sum[i \in 0..Len(attributes)] ==
            IF i = 0 THEN 0 ELSE sum[i - 1] + Room(attributes[i])
    IN sum[Len(attributes)]

\* inputCmd writes nothing outside the buffer whose size it computed first, by other
\* statements than those that place the attributes; except for the commands that need
\* more bytes than commandSize can count.  (And the variables have their types.)
InsideInput == LineTypeOK /\ (cmd # 0 /\ Whole(atts) < 256 => top <= commandSize)
=============================================================================
