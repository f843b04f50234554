---------------------------- MODULE MCCollector ----------------------------
(* The collector over every kind of block and value, for TLC.               *)
EXTENDS Collector

(* Every type a value slot may have; a DataView's separately.               *)
AllTypes == HeaderValues \cup (DataValues \ {"dataView"}) \cup
    {"string", "boundMethod", "externalMethod", "inlineRational"}
WithDataView == {"dataView", "array"}
(* What the callee, the receiver and the arguments of a request may be.     *)
CallTypes == {"promise", "promiseResolve", "constructor", "function", "object"}
TextualCallTypes == {"promise", "function", "string"}
ZeroStart == {0}
=============================================================================
