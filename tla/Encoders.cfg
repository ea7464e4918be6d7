\* Every instruction the encoders know, over operands at the limits of their
\* choices, without the inputs of the known defects.
CONSTANTS
    Programs <- MCPrograms
    ArmListings <- MCArm64Programs
    MacOS = FALSE
    Defects = {"byte_source", "call_register", "byte_immediate", "ucomisd_prefix", "symbol_immediate",
               "mov_parts", "mov_sp", "offset_reach", "wide_immediate", "shift_with_sp", "pair_offset",
               "extern_func_value", "func_store", "symbol_index", "byte_multiply", "round", "int_to_float",
               "float_select", "select_size", "folded_load", "inner_use", "odd_return", "narrow",
               "narrow_compare", "no_copy", "extern_value", "array_value", "struct_value",
               "negative_offset", "exchanged_conversions", "both_args",
               "unwind_offset"}
    LoweredCases <- MCLoweredCases
    LoweredInputs <- MCLoweredInputs
    ObjectFormats <- MCObjectFormats
    ObjectPrograms <- MCObjectPrograms
    WasmPrograms <- MCWasmPrograms
SPECIFICATION SpecGeneration
INVARIANTS InstructionsDecode LoweringKeeps LinkerReads
CHECK_DEADLOCK FALSE
