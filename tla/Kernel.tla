------------------------------- MODULE Kernel -------------------------------
(***************************************************************************)
(* What the drivers' interrupt handlers meet in FreeRTOS.                  *)
(***************************************************************************)
EXTENDS Integers

CONSTANTS IrqPriority,         \* NVIC priority of the port's interrupts
          MaxSyscallPriority   \* configMAX_SYSCALL_INTERRUPT_PRIORITY

ASSUME KernelAssumption == IrqPriority \in Nat /\ MaxSyscallPriority \in Nat

(* vTaskNotifyGiveFromISR asserts that the caller's priority is not above  *)
(* configMAX_SYSCALL_INTERRUPT_PRIORITY (a lower number is more urgent);   *)
(* configASSERT masks the interrupts and stays there.                      *)
GiveFromISRHalts == IrqPriority < MaxSyscallPriority
=============================================================================
