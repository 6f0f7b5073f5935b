------------------------------- MODULE Embedded -------------------------------
(***************************************************************************)
(* The boards of reference/separan/embedded.py: a program that is written  *)
(* statement by statement, what the interpreter does with each statement   *)
(* (EmbeddedContext and the hardware functions), and what the validator of *)
(* `build --board` (validate_embedded_program) says of it without running  *)
(* it.  The program has a variable "led" for a pin and a variable for a    *)
(* bus; statements of an if false are not executed.                        *)
(*                                                                         *)
(* An operator named X_Mistake is X with one mistake in it; no action uses *)
(* it, it shows which property would notice.                               *)
(***************************************************************************)
EXTENDS Integers, Sequences, FiniteSets, SequencesExt, TLC

CONSTANTS PinNames, MaxProgramLines  \* names the program uses; bound: statements

ASSUME EmbeddedAssumption == MaxProgramLines \in Nat

VARIABLES
  target,    \* the board the interpreter is locked to and the program built for, or "none"
  allowed,   \* the boards the host allows
  machine,   \* what has been executed: selected board, led, bus, last operation, failure
  believed,  \* the validator's binding of led: a pin of the target, or "none"
  refused,   \* the validator has refused the program
  skipped,   \* the statement that is written is in an if false
  branching, \* there is an if
  loose,     \* the program uses a pin by its string, or a bus with some of its pins named
  lineCount    \* statements

embeddedVars == <<target, allowed, machine, believed, refused, skipped, branching, loose, lineCount>>

----------------------------------------------------------------------------
(* The profiles of the Raspberry Pi Pico and of the Arduino Nano.          *)
Boards == {"pico", "nano"}
Digital == {"digital_input", "digital_output"}
PicoTable == {
  <<"i2c_sda", 0, {0, 4, 8, 12, 16, 20}>>, <<"i2c_scl", 0, {1, 5, 9, 13, 17, 21}>>,
  <<"i2c_sda", 1, {2, 6, 10, 14, 18, 26}>>, <<"i2c_scl", 1, {3, 7, 11, 15, 19, 27}>>,
  <<"spi_miso", 0, {0, 4, 16, 20}>>, <<"spi_chip_select", 0, {1, 5, 17, 21}>>,
  <<"spi_clock", 0, {2, 6, 18, 22}>>, <<"spi_mosi", 0, {3, 7, 19}>>,
  <<"spi_miso", 1, {8, 12, 28}>>, <<"spi_chip_select", 1, {9, 13}>>,
  <<"spi_clock", 1, {10, 14, 26}>>, <<"spi_mosi", 1, {11, 15, 27}>>,
  <<"uart_tx", 0, {0, 12, 16, 28}>>, <<"uart_rx", 0, {1, 13, 17}>>,
  <<"uart_tx", 1, {4, 8, 20}>>, <<"uart_rx", 1, {5, 9, 21}>>}
NanoTable == {<<"uart_rx", 0, {0}>>, <<"uart_tx", 0, {1}>>, <<"spi_chip_select", 0, {10}>>,
              <<"spi_mosi", 0, {11}>>, <<"spi_miso", 0, {12}>>, <<"spi_clock", 0, {13}>>}
Routed(table, n) == {<<row[1], row[2]>> : row \in {r \in table : n \in r[3]}}
Definition(capabilities, routes) == [capabilities |-> capabilities \cup {route[1] : route \in routes}, routes |-> routes]
Named(prefix, n) == prefix \o ToString(n)
PinsFrom(prefix, numbers, Of(_)) ==
  [name \in {Named(prefix, n) : n \in numbers} |-> Of(CHOOSE n \in numbers : Named(prefix, n) = name)]

PicoPins ==
  PinsFrom("GP", 0..22 \cup 26..28,
           LAMBDA n : Definition(Digital \cup {"pwm"} \cup (IF n \in 26..28 THEN {"analog_input"} ELSE {}), Routed(PicoTable, n)))
  @@ "LED_BUILTIN" :> Definition(Digital, {})
NanoPins ==
  PinsFrom("D", 0..13, LAMBDA n : Definition(Digital \cup (IF n \in {3, 5, 6, 9, 10, 11} THEN {"pwm"} ELSE {}), Routed(NanoTable, n)))
  @@ PinsFrom("A", 0..7, LAMBDA n : Definition({"analog_input"} \cup (IF n <= 5 THEN Digital ELSE {}),
                                               Routed({<<"i2c_sda", 0, {4}>>, <<"i2c_scl", 0, {5}>>}, n)))
PicoAliases ==
  [name \in {Named("D", n) : n \in 0..22} |-> Named("GP", CHOOSE n \in 0..22 : Named("D", n) = name)]
  @@ [A0 |-> "GP26", A1 |-> "GP27", A2 |-> "GP28", SDA |-> "GP4", SCL |-> "GP5", TX |-> "GP0", RX |-> "GP1",
      MISO |-> "GP16", CS |-> "GP17", SCK |-> "GP18", MOSI |-> "GP19"]
NanoAliases ==
  [SDA |-> "A4", SCL |-> "A5", RX |-> "D0", TX |-> "D1", CS |-> "D10", MOSI |-> "D11", MISO |-> "D12",
   SCK |-> "D13", LED_BUILTIN |-> "D13"]

Roles == [i2c |-> {"sda", "scl"}, spi |-> {"mosi", "miso", "clock", "chip_select"}, uart |-> {"tx", "rx"}]
Signal == [sda |-> "i2c_sda", scl |-> "i2c_scl", mosi |-> "spi_mosi", miso |-> "spi_miso", clock |-> "spi_clock",
           chip_select |-> "spi_chip_select", tx |-> "uart_tx", rx |-> "uart_rx"]
AliasOf == [sda |-> "SDA", scl |-> "SCL", mosi |-> "MOSI", miso |-> "MISO", clock |-> "SCK", chip_select |-> "CS", tx |-> "TX", rx |-> "RX"]

PinsOf == [pico |-> PicoPins, nano |-> NanoPins]
Aliases == [pico |-> PicoAliases, nano |-> NanoAliases]
Canonical(board, name) == IF name \in DOMAIN Aliases[board] THEN Aliases[board][name] ELSE name
Has(board, name) == Canonical(board, name) \in DOMAIN PinsOf[board]
PinNamed(board, name) == PinsOf[board][Canonical(board, name)]
\* Only the bus 0 of each kind has default pins: those the aliases name.
Defaults(kind, index) == IF index = 0 THEN [role \in Roles[kind] |-> AliasOf[role]] ELSE <<>>

\* What the tables above are relied on for: what a route is of, the pin can do; the
\* default pins of a bus are pins of the board that are routed to it.
ASSUME TablesAssumption ==
  \A board \in Boards :
    /\ ~Has(board, "none")
    /\ \A name \in DOMAIN PinsOf[board] :
         \A route \in PinsOf[board][name].routes : route[1] \in PinsOf[board][name].capabilities
    /\ \A kind \in DOMAIN Roles, index \in {0, 1} : \A role \in DOMAIN Defaults(kind, index) :
         LET name == Defaults(kind, index)[role]
         IN  Has(board, name) /\ <<Signal[role], index>> \in PinNamed(board, name).routes

----------------------------------------------------------------------------
(* The interpreter.                                                        *)
NoPin == [is |-> "nothing", board |-> "none", name |-> "none"]
Pin(board, name) == [is |-> "pin", board |-> board, name |-> name]
PinText(name) == [is |-> "text", board |-> "none", name |-> name]
AnyRoute == -1
NotPerformed == [board |-> "none", needs |-> {}]
NoBus == [board |-> "none", kind |-> "none", needs |-> {}]

\* An argument is written as pin.NAME or as the variable led.
Arguments == {[of |-> "member", name |-> name] : name \in PinNames} \cup {[of |-> "led", name |-> "led"]}
Unknown == [NoPin EXCEPT !.is = "error"]
Evaluated(argument) ==
  IF argument.of = "led" THEN machine.led
  ELSE IF machine.board # "none" /\ Has(machine.board, argument.name) THEN Pin(machine.board, argument.name) ELSE Unknown

Resolve_AnyBoard(value) ==
  IF machine.board = "none" THEN Unknown
  ELSE CASE value.is = "pin" -> value
         [] value.is = "text" /\ Has(machine.board, value.name) -> Pin(machine.board, value.name)
         [] OTHER -> Unknown
Resolve(value) ==
  IF machine.board = "none" THEN Unknown
  ELSE CASE value.is = "pin" /\ value.board = machine.board -> value
         [] value.is = "text" /\ Has(machine.board, value.name) -> Pin(machine.board, value.name)
         [] OTHER -> Unknown
RequirePin(value, capability) ==
  LET pin == Resolve(value)
  IN  IF pin.is = "pin" /\ capability \in PinNamed(pin.board, pin.name).capabilities THEN pin ELSE Unknown
RoutesRight(pin, role, index) == pin.is = "pin" /\ <<Signal[role], index>> \in PinNamed(pin.board, pin.name).routes

Failing == [machine EXCEPT !.failed = TRUE]
\* An operation, with the pins it concerns and what each of them must be able to do.
Performing(needs) ==
  IF machine.board \in allowed THEN [machine EXCEPT !.done = [board |-> machine.board, needs |-> needs]] ELSE Failing
Run(after) == machine' = IF machine.failed \/ skipped THEN machine ELSE after
Writing == lineCount < MaxProgramLines /\ lineCount' = lineCount + 1 /\ UNCHANGED <<target, allowed>>
NotIf == UNCHANGED <<skipped, branching>>

Needs == [gpio_write |-> "digital_output", gpio_read |-> "digital_input", analog_read |-> "analog_input",
          analog_write |-> "analog_output", pwm_write |-> "pwm"]
MaxDelay == 86400000
ValidDelay(milliseconds) == milliseconds \in 0..MaxDelay
ValidAddress(address) == address \in 0..127

----------------------------------------------------------------------------
(* The validator: the pin an argument is known to be, and its objections.  *)
DirectPin(argument) ==
  IF argument.of = "led" THEN believed ELSE IF Has(target, argument.name) THEN argument.name ELSE "none"
Misspelt(argument) == argument.of = "member" /\ ~Has(target, argument.name)
Judge(objection) == refused' = (refused \/ (target # "none" /\ objection))

\* The binding of led after an assignment of something that is not a pin.
Unbound_Kept == believed
Unbound == "none"

ObjectsToUse(op, argument) ==
  \/ Misspelt(argument)
  \/ DirectPin(argument) # "none" /\ Needs[op] \notin PinNamed(target, DirectPin(argument)).capabilities
ObjectsToOpen_Capability(kind, index, named) ==
  \/ \E role \in DOMAIN named : Misspelt(named[role])
  \/ DOMAIN named = {} /\ Defaults(kind, index) = <<>>
ObjectsToOpen(kind, index, named) ==
  \/ \E role \in DOMAIN named :
       \/ Misspelt(named[role])
       \/ LET pin == DirectPin(named[role])
          IN  pin # "none" /\ <<Signal[role], index>> \notin PinNamed(target, pin).routes
  \/ DOMAIN named = {} /\ Defaults(kind, index) = <<>>

----------------------------------------------------------------------------
(* The author.                                                             *)
BoardSelect(board) ==
  /\ Writing /\ NotIf
  /\ Run(IF target \notin {"none", board} THEN Failing ELSE [machine EXCEPT !.board = board])
  /\ Judge(board # target) /\ UNCHANGED <<believed, loose>>
AssignPin(name) ==
  LET pin == Evaluated([of |-> "member", name |-> name])
  IN  /\ Writing /\ NotIf
      /\ Run(IF pin = Unknown THEN Failing ELSE [machine EXCEPT !.led = pin])
      /\ Judge(~Has(target, name))
      /\ believed' = IF target # "none" /\ Has(target, name) THEN name ELSE "none"
      /\ UNCHANGED loose
AssignText(name) ==
  /\ Writing /\ NotIf
  /\ Run([machine EXCEPT !.led = PinText(name)])
  /\ believed' = Unbound /\ loose' = TRUE /\ UNCHANGED refused
\* gpio_write and its like, with a value that is in range.
UsePin(op, argument) ==
  LET pin == RequirePin(Evaluated(argument), Needs[op])
  IN  /\ Writing /\ NotIf
      /\ Run(IF pin = Unknown THEN Failing ELSE Performing({<<pin, Needs[op], AnyRoute>>}))
      /\ Judge(ObjectsToUse(op, argument))
      /\ UNCHANGED <<believed, loose>>
Delay(milliseconds) ==
  /\ Writing /\ NotIf
  /\ Run(IF ValidDelay(milliseconds) /\ machine.board # "none" THEN Performing({}) ELSE Failing)
  /\ Judge(~ValidDelay(milliseconds)) /\ UNCHANGED <<believed, loose>>
\* named: some roles with the pins they are given.
OpenBus(kind, index, named) ==
  LET defaults == Defaults(kind, index)
      value(role) == IF role \in DOMAIN named THEN Evaluated(named[role]) ELSE PinText(defaults[role])
      pins == [role \in Roles[kind] |-> IF role \in DOMAIN named \cup DOMAIN defaults
                                        THEN RequirePin(value(role), Signal[role]) ELSE Unknown]
      needs == {<<pins[role], Signal[role], index>> : role \in Roles[kind]}
  IN  /\ Writing /\ NotIf
      /\ Run(IF \A role \in Roles[kind] : RoutesRight(pins[role], role, index)
             THEN [Performing(needs) EXCEPT !.bus = IF machine.board \in allowed
                                                    THEN [board |-> machine.board, kind |-> kind, needs |-> needs] ELSE @]
             ELSE Failing)
      /\ Judge(ObjectsToOpen(kind, index, named))
      /\ loose' = (loose \/ DOMAIN named \notin {{}, Roles[kind]}) /\ UNCHANGED believed
\* i2c_probe(bus, address); for the UART the number stands for a valid text.
UseBus(kind, address) ==
  /\ Writing /\ NotIf
  /\ Run(IF machine.bus.kind = kind /\ machine.bus.board = machine.board /\ (kind = "i2c" => ValidAddress(address))
         THEN Performing(machine.bus.needs) ELSE Failing)
  /\ Judge(kind = "i2c" /\ ~ValidAddress(address))
  /\ loose' = (loose \/ machine.bus.kind # kind) /\ UNCHANGED believed
WriteIf == Writing /\ ~skipped /\ skipped' = TRUE /\ branching' = TRUE /\ UNCHANGED <<machine, believed, refused, loose>>
EndIf == skipped /\ skipped' = FALSE /\ UNCHANGED <<target, allowed, machine, believed, refused, branching, loose, lineCount>>

EmbeddedInit ==
  /\ target \in Boards \cup {"none"} /\ allowed \in {Boards, {"nano"}} /\ target \in allowed \cup {"none"}
  /\ machine = [board |-> target, led |-> NoPin, bus |-> NoBus, done |-> NotPerformed, failed |-> FALSE]
  /\ believed = "none" /\ refused = FALSE /\ skipped = FALSE /\ branching = FALSE /\ loose = FALSE /\ lineCount = 0
EmbeddedNext ==
  \/ \E board \in Boards : BoardSelect(board)
  \/ \E name \in PinNames : AssignPin(name) \/ AssignText(name)
  \/ \E op \in DOMAIN Needs, argument \in Arguments : (argument.of = "led" => machine.led # NoPin) /\ UsePin(op, argument)
  \/ \E milliseconds \in {-1, 0, MaxDelay, MaxDelay + 1} : Delay(milliseconds)
  \/ \E kind \in {"i2c", "uart"}, index \in {0, 1} : \E roles \in SUBSET Roles[kind] :
       \E named \in [roles -> {argument \in Arguments : argument.of = "led" => machine.led # NoPin}] : OpenBus(kind, index, named)
  \/ \E index \in {0, 1} : OpenBus("spi", index, <<>>)
  \/ \E kind \in {"i2c", "uart"}, address \in {127, 128} : UseBus(kind, address)
  \/ WriteIf \/ EndIf

----------------------------------------------------------------------------
\* Whatever boards a program selects one after another, an operation only concerns pins
\* of the board it is performed on, that can do it (and, on a bus, on that bus); that
\* board is allowed and, if the host has chosen one, is the one it has chosen.
PerformedRight ==
  machine.done # NotPerformed =>
    /\ machine.done.board \in allowed /\ target \in {"none", machine.done.board}
    /\ \A need \in machine.done.needs :
         /\ need[1].board = machine.done.board
         /\ need[2] \in PinNamed(need[1].board, need[1].name).capabilities
         /\ need[3] # AnyRoute => <<need[2], need[3]>> \in PinNamed(need[1].board, need[1].name).routes

\* A program without branches that the validator refuses fails when it is run, ...
RefusedFails == refused /\ ~branching => machine.failed

\* ... and one that fails is refused, unless it uses strings for pins, names some of the
\* pins of a bus, or uses a bus that is not open.
FailingRefused == machine.failed /\ target # "none" /\ ~branching /\ ~loose => refused

\* All three: the board is respected, and the validator agrees with what happens.
BoardsKept == PerformedRight /\ RefusedFails /\ FailingRefused
=============================================================================
