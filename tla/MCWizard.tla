------------------------------ MODULE MCWizard ------------------------------
(* Instances of Wizard: two modules, the second of a category the first one's *)
(* depends on; a template that has both through a GPU stack, one that loses   *)
(* one to it, and an ISO on which a template does not resolve.                *)
EXTENDS Wizard

\* Sorted by slug, which is not the order of the categories.
SomeModules ==
  <<[category |-> "dev-toolchain", requires |-> {2}, conflicts |-> {}, role |-> TRUE],
    [category |-> "base", requires |-> {}, conflicts |-> {}, role |-> TRUE]>>

\* Module 1 is the CUDA build of llama.cpp; the Vulkan one is not on the ISO.
SomeStacks == [cuda |-> [modules |-> {1}, variant |-> "cuda"],
               vulkan |-> [modules |-> {}, variant |-> "vulkan"]]
SomeBuilds == [vulkan |-> 3, hip |-> 4, cuda |-> 1]

Gpu == [name |-> "gpu", include |-> {2}, stacks |-> <<"cuda">>]
Plain == [name |-> "plain", include |-> {1, 2}, stacks |-> <<"cuda", "vulkan">>]
Broken == [name |-> "broken", include |-> {1}, stacks |-> <<"rocm">>]
SomeTemplates == {{Gpu, Plain}, {Plain, Broken}}
OneTemplate == {{Gpu}}
=============================================================================
