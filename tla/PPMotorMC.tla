------------------------------ MODULE PPMotorMC ------------------------------
(* A small axis: two profile objects and one of the homing parameters.      *)
EXTENDS PPMotor

CONSTANTS velocity, acceleration, method, mode6060, target607A

MCProfileObjects == <<velocity, acceleration>>
MCHomeObjects == <<method>>
MCMappings == {{target607A}, {mode6060, velocity, acceleration}}
=============================================================================
