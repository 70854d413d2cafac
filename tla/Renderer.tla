--------------------------------- MODULE Renderer ---------------------------------
(***************************************************************************)
(* audio_renderer.c: one task hands decoded samples to render_samples,     *)
(* another starts and stops the renderer.  They share renderer_status      *)
(* without a lock.  A sample is a unit; what it sounds like is left out,   *)
(* so i2s_zero_dma_buffer, which silences what the DMA buffer holds and    *)
(* frees none of it, changes nothing here.                                 *)
(***************************************************************************)
EXTENDS Integers

CONSTANTS
  DmaSize,       \* samples the DMA buffers hold: 32 * 64
  MaxSamples,    \* samples of one call of render_samples
  Rates,         \* sample rates
  ConfigRate     \* create_renderer_config: 44100

ASSUME RendererAssumption ==
  /\ DmaSize \in Nat \ {0} /\ MaxSamples \in Nat \ {0}
  /\ Rates \subseteq Nat \ {0} /\ ConfigRate \in Rates

VARIABLES
  renderer_status,
  i2s_on,          \* the I2S peripheral runs
  sample_rate,     \* renderer_instance->sample_rate
  clock,           \* the rate the I2S peripheral is set to
  dma,             \* samples in the DMA buffers
  rpc, left,       \* render_samples: where it is, samples not yet written
  formatsMatch     \* the buffer's format is the renderer's

statusVars == <<renderer_status, i2s_on>>
clockVars == <<sample_rate, clock>>
renderVars == <<rpc, left, dma, formatsMatch>>
rendererVars == <<statusVars, clockVars, renderVars>>

(* renderer_init: the driver is installed and stopped.                     *)
RendererInit ==
  /\ renderer_status = "INITIALIZED" /\ i2s_on = FALSE
  /\ sample_rate = ConfigRate /\ clock = ConfigRate
  /\ dma = 0 /\ rpc = "idle" /\ left = 0
  /\ formatsMatch \in BOOLEAN

-----------------------------------------------------------------------------
(* render_samples                                                          *)

(* A changed rate reaches the peripheral first.                            *)
RenderSamples(n, rate) ==
  /\ rpc = "idle"
  /\ rpc' = "check" /\ left' = n
  /\ IF sample_rate # rate THEN sample_rate' = rate /\ clock' = rate
                           ELSE UNCHANGED clockVars
  /\ UNCHANGED <<statusVars, dma, formatsMatch>>

(* Mutant: the status is not looked at.                                    *)
RenderChecks_Deaf ==
  /\ rpc = "check"
  /\ rpc' = IF left = 0 THEN "idle" ELSE "write"
  /\ UNCHANGED <<statusVars, clockVars, left, dma, formatsMatch>>

(* while (bytes_left > 0 && renderer_status != STOPPED), or the for loop.  *)
RenderChecks ==
  /\ rpc = "check"
  /\ IF left = 0 \/ renderer_status = "STOPPED"
     THEN rpc' = "idle" /\ left' = 0
     ELSE rpc' = "write" /\ UNCHANGED left
  /\ UNCHANGED <<statusVars, clockVars, dma, formatsMatch>>

(* i2s_write, which gives up after max_wait: everything that is left when  *)
(* the formats match, a sample at a time otherwise, or as much of it as    *)
(* there is room for.                                                      *)
RenderWrites ==
  LET wanted == IF formatsMatch THEN left ELSE 1
      room == DmaSize - dma
      pushed == IF wanted < room THEN wanted ELSE room
  IN  /\ rpc = "write"
      /\ dma' = dma + pushed /\ left' = left - pushed
      /\ rpc' = "check"
      /\ UNCHANGED <<statusVars, clockVars, formatsMatch>>

RenderStep == RenderChecks \/ RenderWrites

(* The peripheral plays a sample.                                          *)
Plays ==
  /\ i2s_on /\ dma > 0
  /\ dma' = dma - 1
  /\ UNCHANGED <<statusVars, clockVars, rpc, left, formatsMatch>>

-----------------------------------------------------------------------------
(* renderer_start and renderer_stop change the status first and the        *)
(* peripheral in a second step.                                            *)

renderer_start == renderer_status' = "RUNNING" /\ UNCHANGED i2s_on
renderer_stop == renderer_status' = "STOPPED" /\ UNCHANGED i2s_on
i2s_start == i2s_on' = TRUE /\ UNCHANGED renderer_status
i2s_stop == i2s_on' = FALSE /\ UNCHANGED renderer_status

=============================================================================
